---- MODULE Spec2Model ----
(***************************************************************************)
(* Model of the USSD Bitcoin-Lightning gateway: the ledger operations of   *)
(* handlers.py over the mock Lightning backend of lightning.py, the        *)
(* database-logged operations of transaction_helpers.py, the request       *)
(* engine of app.py with the natural-language overlay of ai_processor.py,  *)
(* and the top-up flow of ussd_integration_example.py.                     *)
(*                                                                         *)
(* Python strings are sequences of one-character strings, so that          *)
(* startswith, strip, lower, isdigit, split and int() are computed.        *)
(*                                                                         *)
(* The MeTTa atomspace (hyperon, an external library) is modelled by the   *)
(* contract the code relies on: add-atom adds, match returns the stored    *)
(* atoms, remove-atom removes the atoms matching its pattern.              *)
(***************************************************************************)
EXTENDS Integers, Sequences, FiniteSets, TLC

(***************************************************************************)
(* Strings                                                                 *)
(***************************************************************************)
Digits == {"0", "1", "2", "3", "4", "5", "6", "7", "8", "9"}

DigitVal(c) ==
    CASE c = "0" -> 0 [] c = "1" -> 1 [] c = "2" -> 2 [] c = "3" -> 3
      [] c = "4" -> 4 [] c = "5" -> 5 [] c = "6" -> 6 [] c = "7" -> 7
      [] c = "8" -> 8 [] c = "9" -> 9 [] OTHER -> 0

\* str.startswith
StartsWith(s, p) ==
    /\ Len(s) >= Len(p)
    /\ \A i \in 1..Len(p) : s[i] = p[i]

\* str.isdigit: non-empty and every character a digit
IsDigit(s) == Len(s) > 0 /\ \A i \in 1..Len(s) : s[i] \in Digits

RECURSIVE LStrip(_)
LStrip(s) == IF s # <<>> /\ Head(s) = " " THEN LStrip(Tail(s)) ELSE s

RECURSIVE RStrip(_)
RStrip(s) ==
    IF s # <<>> /\ s[Len(s)] = " " THEN RStrip(SubSeq(s, 1, Len(s) - 1)) ELSE s

\* str.strip
Strip(s) == RStrip(LStrip(s))

LowerChar(c) ==
    CASE c = "B" -> "b" [] c = "Y" -> "y" [] c = "R" -> "r" [] OTHER -> c

\* str.lower
Lower(s) == [i \in 1..Len(s) |-> LowerChar(s[i])]

\* keyword in s
Contains(s, k) ==
    \E i \in 0..(Len(s) - Len(k)) : \A j \in 1..Len(k) : s[i + j] = k[j]

\* str.split("*")
RECURSIVE SplitStar(_, _)
SplitStar(s, cur) ==
    IF s = <<>> THEN <<cur>>
    ELSE IF Head(s) = "*" THEN <<cur>> \o SplitStar(Tail(s), <<>>)
    ELSE SplitStar(Tail(s), Append(cur, Head(s)))

\* Python integers are unbounded; every value from Huge up is held as Huge,
\* which is above every threshold and balance it is compared with
Huge == 2000000

RECURSIVE DigitsValue(_, _)
DigitsValue(s, acc) ==
    IF s = <<>> THEN acc
    ELSE LET v == acc * 10 + DigitVal(Head(s))
         IN  DigitsValue(Tail(s), IF v > Huge THEN Huge ELSE v)

\* int(s): surrounding whitespace and one sign are accepted, anything else
\* raises ValueError (ok = FALSE)
ParseInt(s) ==
    LET t == Strip(s)
        neg == t # <<>> /\ Head(t) = "-"
        u == IF t # <<>> /\ Head(t) \in {"-", "+"} THEN Tail(t) ELSE t
    IN  IF IsDigit(u)
        THEN [ok |-> TRUE, val |-> IF neg THEN 0 - DigitsValue(u, 0) ELSE DigitsValue(u, 0)]
        ELSE [ok |-> FALSE, val |-> 0]

\* ''.join(filter(str.isdigit, s))
RECURSIVE FilterDigits(_)
FilterDigits(s) ==
    IF s = <<>> THEN <<>>
    ELSE IF Head(s) \in Digits THEN <<Head(s)>> \o FilterDigits(Tail(s))
    ELSE FilterDigits(Tail(s))

(***************************************************************************)
(* Phone numbers (handlers.py)                                             *)
(***************************************************************************)
Plus254 == <<"+", "2", "5", "4">>
S254 == <<"2", "5", "4">>

\* normalize_phone_number stripping the result instead of the argument
normalize_strip_last(phone) ==
    IF StartsWith(phone, <<"0">>) /\ Len(phone) = 10 THEN Plus254 \o Tail(phone)
    ELSE IF StartsWith(phone, S254) /\ Len(phone) = 12 THEN <<"+">> \o phone
    ELSE Strip(phone)

normalize_phone_number(phone) ==
    LET p == Strip(phone)
    IN  IF StartsWith(p, <<"0">>) /\ Len(p) = 10 THEN Plus254 \o Tail(p)
        ELSE IF StartsWith(p, S254) /\ Len(p) = 12 THEN <<"+">> \o p
        ELSE p

validate_phone_number(phone) ==
    LET viaPrefix ==
            IF StartsWith(phone, Plus254) THEN [ok |-> TRUE, p |-> phone]
            ELSE IF StartsWith(phone, S254) THEN [ok |-> TRUE, p |-> <<"+">> \o phone]
            ELSE IF StartsWith(phone, <<"0">>) /\ Len(phone) = 10
                 THEN [ok |-> TRUE, p |-> Plus254 \o Tail(phone)]
            ELSE [ok |-> FALSE, p |-> phone]
    IN  /\ viaPrefix.ok
        /\ Len(viaPrefix.p) = 13
        /\ IsDigit(Tail(viaPrefix.p))

(***************************************************************************)
(* Amount policy and currency conversion                                   *)
(***************************************************************************)
MinSats == 1
MaxSats == 1000000
MinTopupKes == 10
MinWithdrawKes == 100
MinAirtimeKes == 10
MaxAirtimeKes == 1000
RateSats == 1000
RateKes == 150

\* validate_amount: "" when valid, else the error
validate_amount(amount) ==
    IF amount < MinSats THEN "min"
    ELSE IF amount > MaxSats THEN "max"
    ELSE "ok"

\* int(kes_amount * (1000 / 150)): on the whole amounts of the flows the
\* float product truncates to the integer floor
kes_to_sats(kes) == (kes * RateSats) \div RateKes

(***************************************************************************)
(* State                                                                   *)
(***************************************************************************)
VARIABLES
    users,      \* table users: phone_number -> balance_sats (rows that exist)
    mbal,       \* MeTTa (Balance phone b) atoms: phone -> b
    invoices,   \* LightningAPI.mock_data["invoices"], in insertion order
    nextOid,    \* identity of the next invoice dict object
    payments,   \* LightningAPI.mock_data["payments"]
    txlog,      \* MeTTa (Transaction from to amount type ts) atoms
    pending,    \* MeTTa (PendingMpesa phone invoice kes sats ts) atoms
    gw,         \* mobile-money gateway: invoice id -> state
    now,        \* int(time.time())
    thr,        \* per worker thread: the frame of the operation it runs
    opCount,    \* operations started so far
    dbtx,       \* table transactions (transaction_helpers.py)
    dbinv,      \* table invoices (invoice_helpers.py)
    exSess,     \* table ussd_sessions (session_helpers.py)
    exResp,     \* the last response of UssdHandler.handle_ussd_request
    user_sessions,   \* app.py user_sessions: session id -> USSDSession
    session_context, \* ai_processor.py session_context: session id -> ai context
    inflight,   \* the requests to /ussd that the worker threads are serving
    ussdReq     \* the last request to app.py's /ussd: its session id, the
                \* shape of its text, its response, whether process_with_ai
                \* answered it, and the operation of USSDHandlers it called

ledgerVars == <<users, mbal, invoices, nextOid, payments, txlog, pending, gw, now>>
dbVars == <<dbtx, dbinv, exSess, exResp>>
engineVars == <<user_sessions, session_context, inflight, ussdReq>>

(***************************************************************************)
(* Database sessions of lightning.py (each one transaction)                *)
(***************************************************************************)
Max(a, b) == IF a > b THEN a ELSE b

\* _update_db_balance without the floor at zero
update_db_balance_unclamped(u, user_id, amount_change) ==
    IF user_id \in DOMAIN u
    THEN [u EXCEPT ![user_id] = @ + amount_change]
    ELSE u @@ (user_id :> amount_change)

get_db_balance(u, user_id) == IF user_id \in DOMAIN u THEN u[user_id] ELSE 0

update_db_balance(u, user_id, amount_change) ==
    IF user_id \in DOMAIN u
    THEN [u EXCEPT ![user_id] = IF @ + amount_change < 0 THEN 0 ELSE @ + amount_change]
    ELSE u @@ (user_id :> Max(0, amount_change))

set_db_balance(u, user_id, amount) ==
    IF user_id \in DOMAIN u
    THEN [u EXCEPT ![user_id] = amount]
    ELSE u @@ (user_id :> amount)

\* The ledger as one value
World ==
    [users |-> users, mbal |-> mbal, invoices |-> invoices, nextOid |-> nextOid,
     payments |-> payments, txlog |-> txlog, pending |-> pending, gw |-> gw,
     now |-> now]

\* USSDHandlers.update_balance: replace the Balance atom, then set_balance
update_balance(w, phone_number, new_balance) ==
    [w EXCEPT !.mbal = IF phone_number \in DOMAIN @
                       THEN [@ EXCEPT ![phone_number] = new_balance]
                       ELSE @ @@ (phone_number :> new_balance),
              !.users = set_db_balance(@, phone_number, new_balance)]

add_transaction(w, from, to, amount, type) ==
    [w EXCEPT !.txlog = Append(@, [from |-> from, to |-> to, amount |-> amount, type |-> type])]

\* LightningAPI.create_invoice (mock): the id is inv_<seconds>_<user>, the
\* payment request is lnbc<amount>1pwxyz..., a function of the amount alone
create_invoice(w, user_id, amount) ==
    LET id == <<w.now, user_id>>
        obj == [id |-> id, amount |-> amount, user_id |-> user_id, paid |-> FALSE,
                oid |-> w.nextOid]
        hit == {i \in 1..Len(w.invoices) : w.invoices[i].id = id}
    IN  [w EXCEPT !.invoices = IF hit = {} THEN Append(@, obj)
                               ELSE [i \in 1..Len(@) |-> IF i \in hit THEN obj ELSE @[i]],
                  !.nextOid = @ + 1]

\* the first invoice, in dict order, whose payment_request is that of `amount`
find_invoice(w, amount) ==
    LET hit == {i \in 1..Len(w.invoices) : w.invoices[i].amount = amount}
    IN  IF hit = {} THEN 0 ELSE CHOOSE i \in hit : \A j \in hit : i <= j

(***************************************************************************)
(* Frames: one operation of USSDHandlers in progress.  A step is one       *)
(* database session or external call together with the in-process work     *)
(* that precedes the next one.                                             *)
(***************************************************************************)
NoPhone == <<>>
MPesa == <<"M", "-", "P", "e", "s", "a">>
AirtimeTo == <<"A", "i", "r", "t", "i", "m", "e">>
NoInvoice == [id |-> <<>>, amount |-> 0, user_id |-> NoPhone, paid |-> FALSE, oid |-> 0]
NoPending == [phone |-> NoPhone, invoice |-> 0, kes |-> 0, sats |-> 0]

IdleFrame ==
    [op |-> "idle", pc |-> "done", from |-> NoPhone, to |-> NoPhone, amt |-> 0,
     sats |-> 0, gphone |-> NoPhone, cont |-> "done", val |-> 0, bal |-> 0,
     inv |-> NoInvoice, snap |-> NoPending, res |-> "none", msg |-> "",
     pre |-> <<>>, preTx |-> 0, prePending |-> {}, seq |-> 0, peer |-> 0]

\* `seq` numbers the operation; `peer` is the operation another thread had
\* in progress when this one was called (0 when none)
NewFrame(w, op, from, to, amt, seq, peer) ==
    [IdleFrame EXCEPT !.op = op, !.pc = "begin", !.from = from, !.to = to, !.amt = amt,
                      !.pre = w.users, !.preTx = Len(w.txlog), !.prePending = w.pending,
                      !.seq = seq, !.peer = peer]

\* the return of an operation: its locals go, its arguments and result stay
Return(f, res, m) ==
    [IdleFrame EXCEPT !.op = f.op, !.from = f.from, !.to = f.to, !.amt = f.amt,
                      !.sats = f.sats, !.res = res, !.msg = m, !.pre = f.pre,
                      !.preTx = f.preTx, !.prePending = f.prePending,
                      !.seq = f.seq, !.peer = f.peer]
Fail(f, m) == Return(f, "fail", m)
Succeed(f) == Return(f, "ok", "ok")
CallBalance(f, phone, cont) == [f EXCEPT !.pc = "gub", !.gphone = phone, !.cont = cont]

\* USSDHandlers.get_user_balance: the Balance atom is compared with the
\* database balance; the database balance is what is returned
get_user_balance_read(w, f) ==
    LET lb == get_db_balance(w.users, f.gphone)
    IN  IF f.gphone \in DOMAIN w.mbal /\ w.mbal[f.gphone] # lb
        THEN [w |-> w, f |-> [f EXCEPT !.pc = "gub_sync", !.val = lb]]
        ELSE [w |-> w, f |-> [f EXCEPT !.pc = f.cont, !.val = lb]]

get_user_balance_sync(w, f) ==
    [w |-> update_balance(w, f.gphone, f.val), f |-> [f EXCEPT !.pc = f.cont]]

(***************************************************************************)
(* handlers.py: the first step of each operation (argument checks up to    *)
(* the first database session or gateway call)                             *)
(***************************************************************************)
send_btc_begin(f) ==
    LET from_phone == normalize_phone_number(f.from)
        to_phone == normalize_phone_number(f.to)
        g == [f EXCEPT !.from = from_phone, !.to = to_phone]
    IN  IF ~validate_phone_number(from_phone) THEN Fail(g, "Invalid sender phone number")
        ELSE IF ~validate_phone_number(to_phone) THEN Fail(g, "Invalid recipient phone number")
        ELSE IF validate_amount(f.amt) # "ok" THEN Fail(g, validate_amount(f.amt))
        ELSE CallBalance(g, from_phone, "send_balance")

withdraw_begin(f) ==
    LET phone_number == normalize_phone_number(f.from)
        g == [f EXCEPT !.from = phone_number, !.to = normalize_phone_number(f.to),
                       !.sats = kes_to_sats(f.amt)]
    IN  IF ~validate_phone_number(phone_number) THEN Fail(g, "Invalid phone number")
        ELSE IF f.amt < MinWithdrawKes THEN Fail(g, "Minimum withdrawal is 100 KES")
        ELSE CallBalance(g, phone_number, "withdraw_balance")

buy_airtime_begin(f) ==
    LET phone_number == normalize_phone_number(f.from)
        airtime_phone == normalize_phone_number(f.to)
        g == [f EXCEPT !.from = phone_number, !.to = airtime_phone,
                       !.sats = kes_to_sats(f.amt)]
    IN  IF ~validate_phone_number(phone_number) THEN Fail(g, "Invalid sender phone number")
        ELSE IF ~validate_phone_number(airtime_phone)
             THEN Fail(g, "Invalid airtime recipient phone number")
        ELSE IF f.amt < MinAirtimeKes THEN Fail(g, "Minimum airtime purchase is 10 KES")
        ELSE IF f.amt > MaxAirtimeKes THEN Fail(g, "Maximum airtime purchase is 1,000 KES")
        ELSE CallBalance(g, phone_number, "airtime_balance")

\* Gateway invoice ids are 1, 2, ...; 0 stands for no id
GwFree(w) == {i \in DOMAIN w.gw : w.gw[i] = "NONE"}

\* topup_via_mpesa: `ext` is what initiate_mpesa_stk_push does: "ok" (a
\* collection is created), "fail" (it returns success False) or "raise"
topup_via_mpesa(w, f, ext) ==
    LET phone_number == normalize_phone_number(f.from)
        sats_amount == kes_to_sats(f.amt)
        g == [f EXCEPT !.from = phone_number, !.sats = sats_amount]
        id == CHOOSE i \in GwFree(w) : \A j \in GwFree(w) : i <= j
    IN  IF ~validate_phone_number(phone_number)
        THEN [w |-> w, f |-> Fail(g, "Invalid phone number")]
        ELSE IF f.amt < MinTopupKes
        THEN [w |-> w, f |-> Fail(g, "Minimum Lightning Network purchase is 10 KES (66 sats)")]
        ELSE IF ext = "raise" THEN [w |-> w, f |-> Fail(g, "DEBUG ERROR")]
        ELSE IF ext = "fail"
        THEN [w |-> w, f |-> Fail(g, "Failed to initiate M-Pesa payment. Please try again.")]
        ELSE [w |-> [w EXCEPT !.gw[id] = "PENDING",
                              !.pending = @ \cup {[phone |-> phone_number, invoice |-> id,
                                                   kes |-> f.amt, sats |-> sats_amount]}],
              f |-> Succeed(g)]

\* complete_mpesa_topup that takes the caller's word for the status
complete_trusting(w, f, ext) ==
    LET found == {p \in w.pending : p.invoice = f.amt}
    IN  IF found = {}
        THEN Fail(f, "Payment completed but no matching pending transaction found")
        ELSE LET p == CHOOSE q \in found : TRUE
             IN  CallBalance([f EXCEPT !.snap = p, !.from = p.phone, !.sats = p.sats],
                             p.phone, "complete_credit")

\* complete_mpesa_topup up to the balance read: `ext` is what
\* check_mpesa_status does: "ok" (the gateway answers), "error" or "raise"
complete_mpesa_topup_begin(w, f, ext) ==
    LET invoice_id == f.amt
        status == IF invoice_id \in DOMAIN w.gw THEN w.gw[invoice_id] ELSE "NONE"
        found == {p \in w.pending : p.invoice = invoice_id}
    IN  IF ext = "raise" THEN Fail(f, "Error verifying payment")
        ELSE IF ext = "error" \/ status = "NONE" THEN Fail(f, "Unable to verify payment status")
        ELSE IF status = "COMPLETE"
        THEN IF found = {}
             THEN Fail(f, "Payment completed but no matching pending transaction found")
             ELSE LET p == CHOOSE q \in found : TRUE
                  IN  CallBalance([f EXCEPT !.snap = p, !.from = p.phone, !.sats = p.sats],
                                  p.phone, "complete_credit")
        ELSE IF status \in {"FAILED", "CANCELLED"} THEN Fail(f, "Payment failed")
        ELSE Fail(f, "Payment still pending. Please wait and try again.")

(***************************************************************************)
(* One step of an operation in progress                                    *)
(***************************************************************************)
\* send_btc without the balance check
send_balance_unchecked(w, f) ==
    [w |-> create_invoice(w, f.to, f.amt),
     f |-> [f EXCEPT !.pc = "pay_find", !.bal = f.val]]

\* send_btc after the sender's balance is read: the check, create_invoice
send_balance(w, f) ==
    IF f.val < f.amt
    THEN [w |-> w, f |-> Fail(f, "Insufficient balance")]
    ELSE [w |-> create_invoice(w, f.to, f.amt),
          f |-> [f EXCEPT !.pc = "pay_find", !.bal = f.val]]

\* pay_invoice: lookup by payment request, paid flag, balance session
pay_find(w, f) ==
    LET i == find_invoice(w, f.amt)
    IN  IF i = 0 THEN [w |-> w, f |-> Fail(f, "Invoice not found")]
        ELSE IF w.invoices[i].paid THEN [w |-> w, f |-> Fail(f, "Invoice already paid")]
        ELSE IF get_db_balance(w.users, f.from) < w.invoices[i].amount
             THEN [w |-> w, f |-> Fail(f, "Insufficient balance")]
        ELSE [w |-> w, f |-> [f EXCEPT !.pc = "pay_debit", !.inv = w.invoices[i]]]

pay_debit(w, f) ==
    [w |-> [w EXCEPT !.users = update_db_balance(@, f.from, 0 - f.inv.amount)],
     f |-> [f EXCEPT !.pc = "pay_credit"]]

\* the payee's session, invoice["paid"] = True on the dict object found,
\* the payment record, and send_btc's Transaction atom
pay_credit(w, f) ==
    LET w1 == [w EXCEPT !.users = update_db_balance(@, f.inv.user_id, f.inv.amount),
                        !.invoices = [i \in 1..Len(@) |->
                                        IF @[i].oid = f.inv.oid
                                        THEN [@[i] EXCEPT !.paid = TRUE] ELSE @[i]],
                        !.payments = Append(@, [from |-> f.from, to |-> f.inv.user_id,
                                                amount |-> f.inv.amount])]
    IN  [w |-> add_transaction(w1, f.from, f.to, f.amt, "Lightning"),
         f |-> [f EXCEPT !.pc = "send_update_from"]]

send_update_from(w, f) ==
    [w |-> update_balance(w, f.from, f.bal - f.amt),
     f |-> CallBalance(f, f.to, "send_update_to")]

send_update_to(w, f) ==
    [w |-> update_balance(w, f.to, f.val + f.amt), f |-> Succeed(f)]

\* withdraw_to_mpesa refusing a balance equal to the amount
withdraw_balance_strict(w, f) ==
    IF f.val <= f.sats
    THEN [w |-> w, f |-> Fail(f, "Insufficient balance")]
    ELSE [w |-> add_transaction(update_balance(w, f.from, f.val - f.sats),
                                f.from, MPesa, f.sats, "Withdraw"),
          f |-> Succeed(f)]

withdraw_balance(w, f) ==
    IF f.val < f.sats
    THEN [w |-> w, f |-> Fail(f, "Insufficient balance")]
    ELSE [w |-> add_transaction(update_balance(w, f.from, f.val - f.sats),
                                f.from, MPesa, f.sats, "Withdraw"),
          f |-> Succeed(f)]

\* _process_airtime_purchase (the carrier call) only logs and returns True
\* buy_airtime after the balance is read: the check, then the carrier call
airtime_balance(w, f) ==
    IF f.val < f.sats
    THEN [w |-> w, f |-> Fail(f, "Insufficient balance")]
    ELSE [w |-> w, f |-> [f EXCEPT !.pc = "airtime_debit", !.bal = f.val]]

\* buy_airtime after the carrier call: the debit and the Transaction
airtime_debit(w, f) ==
    [w |-> add_transaction(update_balance(w, f.from, f.bal - f.sats),
                           f.from, AirtimeTo, f.sats, "Airtime"),
     f |-> Succeed(f)]

\* complete_mpesa_topup leaving the PendingMpesa atom in place
complete_credit_keeps_pending(w, f) ==
    [w |-> add_transaction(update_balance(w, f.snap.phone, f.val + f.snap.sats),
                           MPesa, f.snap.phone, f.snap.sats, "TopUp"),
     f |-> Succeed(f)]

complete_credit(w, f) ==
    LET w1 == add_transaction(update_balance(w, f.snap.phone, f.val + f.snap.sats),
                              MPesa, f.snap.phone, f.snap.sats, "TopUp")
    IN  [w |-> [w1 EXCEPT !.pending = @ \ {f.snap}], f |-> Succeed(f)]

Step(w, f) ==
    CASE f.pc = "gub" -> get_user_balance_read(w, f)
      [] f.pc = "gub_sync" -> get_user_balance_sync(w, f)
      [] f.pc = "send_balance" -> send_balance(w, f)
      [] f.pc = "pay_find" -> pay_find(w, f)
      [] f.pc = "pay_debit" -> pay_debit(w, f)
      [] f.pc = "pay_credit" -> pay_credit(w, f)
      [] f.pc = "send_update_from" -> send_update_from(w, f)
      [] f.pc = "send_update_to" -> send_update_to(w, f)
      [] f.pc = "withdraw_balance" -> withdraw_balance(w, f)
      [] f.pc = "airtime_balance" -> airtime_balance(w, f)
      [] f.pc = "airtime_debit" -> airtime_debit(w, f)
      [] f.pc = "complete_credit" -> complete_credit(w, f)
      [] OTHER -> [w |-> w, f |-> f]

\* the one element of a singleton set: {F(x) : x \in {v}} computes v once
The(S) == CHOOSE x \in S : TRUE

\* an operation run to its return with no other thread in between
RECURSIVE Run(_, _)
Run(w, f) ==
    IF f.pc = "done" THEN [w |-> w, f |-> f]
    ELSE The({Run(n.w, n.f) : n \in {Step(w, f)}})

(***************************************************************************)
(* The ledger under concurrent requests: each worker thread runs one       *)
(* operation at a time, a step at a time                                   *)
(***************************************************************************)
Threads == {"t1", "t2"}
SessionIds == {"s1"}
NoSession ==
    [exists |-> FALSE, active |-> FALSE, state |-> "main_menu", recipient |-> <<>>,
     amount_sats |-> 0, kes |-> [num |-> 0, den |-> 1], topup_sats |-> 0]
\* USSDSession: a session created by get_or_create_session starts at
\* main_menu with empty data
NoUssdSession ==
    [exists |-> FALSE, phone_number |-> <<>>, state |-> "main_menu",
     recipient_phone |-> <<>>, invoice_recipient |-> <<>>, withdraw_kes |-> 0,
     airtime_kes |-> 0]
\* an ai context {operation, awaiting, data}; data holds kes_amount and the
\* sats figure shown to the user (sats_equivalent / sats_needed)
NoContext == [present |-> FALSE, operation |-> "", awaiting |-> "", kes_amount |-> 0, sats |-> 0]
\* a worker thread that serves no request
NoRequest ==
    [active |-> FALSE, sid |-> "", shape |-> "", read |-> NoUssdSession, us |-> NoUssdSession,
     ctx |-> NoContext, kind |-> "", key |-> "", raised |-> FALSE, ai |-> FALSE]
MaxOps == 2
MaxNow == 1
MaxGw == 1

PhoneA == <<"+", "2", "5", "4", "7", "1", "2", "3", "4", "5", "6", "7", "8">>
PhoneB == <<"+", "2", "5", "4", "7", "8", "7", "6", "5", "4", "3", "2", "1">>
LocalA == <<"0", "7", "1", "2", "3", "4", "5", "6", "7", "8">>
PhoneC == <<"+", "2", "5", "4", "7", "9", "8", "7", "6", "5", "4", "3", "2">>
Callers == {PhoneA, PhoneB}
Payers == {PhoneA}
Recipients == {PhoneB, LocalA}
InitBalances == {100, 1000}
SendAmounts == {60}
WithdrawKes == {100}
AirtimeKes == {10}
TopupKes == {10}
GwIds == 1..MaxGw
GwOutcomes == {"ok", "fail", "raise"}
StatusOutcomes == {"ok", "error", "raise"}

Install(w) ==
    /\ users' = w.users
    /\ mbal' = w.mbal
    /\ invoices' = w.invoices
    /\ nextOid' = w.nextOid
    /\ payments' = w.payments
    /\ txlog' = w.txlog
    /\ pending' = w.pending
    /\ gw' = w.gw
    /\ now' = w.now

Busy(t) == thr[t].pc # "done"

PeerOf(t) ==
    LET o == {u \in Threads \ {t} : Busy(u)}
    IN  IF o = {} THEN 0 ELSE thr[CHOOSE u \in o : TRUE].seq

Call(t, op, from, to, amt) == NewFrame(World, op, from, to, amt, opCount + 1, PeerOf(t))

\* a request goes to the first worker that is not busy
Free(t) ==
    /\ thr[t].pc = "done"
    /\ opCount < MaxOps
    /\ t = "t2" => thr["t1"].pc # "done"

Init ==
    /\ \E b \in InitBalances : users = (PhoneA :> b) /\ mbal = (PhoneA :> b)
    /\ invoices = <<>>
    /\ nextOid = 1
    /\ payments = <<>>
    /\ txlog = <<>>
    /\ \/ pending = {} /\ gw = [i \in GwIds |-> "NONE"]
       \/ /\ pending = {[phone |-> PhoneA, invoice |-> 1, kes |-> 10, sats |-> kes_to_sats(10)]}
          /\ gw = [i \in GwIds |-> IF i = 1 THEN "PENDING" ELSE "NONE"]
    /\ now = 0
    /\ thr = [t \in Threads |-> IdleFrame]
    /\ opCount = 0
    /\ dbtx = <<>>
    /\ dbinv = <<>>
    /\ exSess = [sid \in SessionIds |-> NoSession]
    /\ exResp = [kind |-> "", key |-> ""]
    /\ user_sessions = [sid \in SessionIds |-> NoUssdSession]
    /\ session_context = [sid \in SessionIds |-> NoContext]
    /\ inflight = [t \in Threads |-> NoRequest]
    /\ ussdReq = [sid |-> "", shape |-> "", kind |-> "", key |-> "", raised |-> FALSE,
                  ai |-> FALSE, op |-> "none"]

StartSendBtc(t) ==
    /\ Free(t)
    /\ \E from \in Callers, to \in Recipients, amount \in SendAmounts :
          thr' = [thr EXCEPT ![t] = send_btc_begin(Call(t, "send_btc", from, to, amount))]
    /\ opCount' = opCount + 1
    /\ UNCHANGED <<ledgerVars, dbVars, engineVars>>

StartWithdraw(t) ==
    /\ Free(t)
    /\ \E from \in Callers, kes \in WithdrawKes :
          thr' = [thr EXCEPT ![t] = withdraw_begin(Call(t, "withdraw_to_mpesa", from, from, kes))]
    /\ opCount' = opCount + 1
    /\ UNCHANGED <<ledgerVars, dbVars, engineVars>>

StartBuyAirtime(t) ==
    /\ Free(t)
    /\ \E from \in Payers, kes \in AirtimeKes :
          thr' = [thr EXCEPT ![t] = buy_airtime_begin(Call(t, "buy_airtime", from, from, kes))]
    /\ opCount' = opCount + 1
    /\ UNCHANGED <<ledgerVars, dbVars, engineVars>>

TopupViaMpesa(t) ==
    /\ Free(t)
    /\ \E from \in Payers, kes \in TopupKes, ext \in GwOutcomes :
          /\ ext = "ok" => GwFree(World) # {}
          /\ LET r == topup_via_mpesa(World, Call(t, "topup_via_mpesa", from, from, kes), ext)
             IN  Install(r.w) /\ thr' = [thr EXCEPT ![t] = r.f]
    /\ opCount' = opCount + 1
    /\ UNCHANGED <<dbVars, engineVars>>

StartCompleteTopup(t) ==
    /\ Free(t)
    /\ \E invoice_id \in GwIds, ext \in StatusOutcomes :
          thr' = [thr EXCEPT ![t] = complete_mpesa_topup_begin(World,
                      Call(t, "complete_mpesa_topup", NoPhone, NoPhone, invoice_id), ext)]
    /\ opCount' = opCount + 1
    /\ UNCHANGED <<ledgerVars, dbVars, engineVars>>

ThreadStep(t) ==
    /\ thr[t].pc # "done"
    /\ LET r == Step(World, thr[t])
       IN  Install(r.w) /\ thr' = [thr EXCEPT ![t] = r.f]
    /\ UNCHANGED <<opCount, dbVars, engineVars>>

\* the payer answers the STK push on the phone, or it lapses
GatewaySettle ==
    /\ \E i \in GwIds, st \in {"COMPLETE", "FAILED"} :
          gw[i] = "PENDING" /\ gw' = [gw EXCEPT ![i] = st]
    /\ UNCHANGED <<users, mbal, invoices, nextOid, payments, txlog, pending, now, thr, opCount>>
    /\ UNCHANGED <<dbVars, engineVars>>

Tick ==
    /\ now < MaxNow
    /\ now' = now + 1
    /\ UNCHANGED <<users, mbal, invoices, nextOid, payments, txlog, pending, gw, thr, opCount>>
    /\ UNCHANGED <<dbVars, engineVars>>

vars == <<users, mbal, invoices, nextOid, payments, txlog, pending, gw, now, thr, opCount,
          dbtx, dbinv, exSess, exResp, user_sessions, session_context, inflight, ussdReq>>

Next ==
    \/ \E t \in Threads : StartSendBtc(t)
    \/ \E t \in Threads : StartWithdraw(t)
    \/ \E t \in Threads : StartBuyAirtime(t)
    \/ \E t \in Threads : TopupViaMpesa(t)
    \/ \E t \in Threads : StartCompleteTopup(t)
    \/ \E t \in Threads : ThreadStep(t)
    \/ GatewaySettle

Spec == Init /\ [][Next]_vars

(***************************************************************************)
(* The ledger with one request at a time: every operation runs to its      *)
(* return before the next is called, and the clock advances in between     *)
(***************************************************************************)
MaxSeqOps == 3
SeqSendAmounts == {60, 0, 50000}
SeqWithdrawKes == {100, 99, 150}
SeqTopupKes == {10, 9}

SeqFree == opCount < MaxSeqOps

Returned(r) ==
    /\ Install(r.w)
    /\ thr' = [thr EXCEPT !["t1"] = r.f]
    /\ opCount' = opCount + 1
    /\ UNCHANGED <<dbVars, engineVars>>

SeqSendBtc ==
    /\ SeqFree
    /\ \E from \in Callers, to \in Recipients, amount \in SeqSendAmounts :
          Returned(Run(World, send_btc_begin(Call("t1", "send_btc", from, to, amount))))

SeqWithdraw ==
    /\ SeqFree
    /\ \E from \in Payers, kes \in SeqWithdrawKes :
          Returned(Run(World, withdraw_begin(Call("t1", "withdraw_to_mpesa", from, from, kes))))

SeqBuyAirtime ==
    /\ SeqFree
    /\ \E from \in Payers, kes \in AirtimeKes :
          Returned(Run(World, buy_airtime_begin(Call("t1", "buy_airtime", from, from, kes))))

SeqTopup ==
    /\ SeqFree
    /\ \E from \in Payers, kes \in SeqTopupKes, ext \in GwOutcomes :
          /\ ext = "ok" => GwFree(World) # {}
          /\ Returned(topup_via_mpesa(World, Call("t1", "topup_via_mpesa", from, from, kes), ext))

SeqCompleteTopup ==
    /\ SeqFree
    /\ \E invoice_id \in GwIds, ext \in StatusOutcomes :
          Returned(Run(World, complete_mpesa_topup_begin(World,
                       Call("t1", "complete_mpesa_topup", NoPhone, NoPhone, invoice_id), ext)))

\* USSDHandlers.receive_btc: an invoice for the caller
receive_btc(w, f) ==
    LET p == normalize_phone_number(f.from)
        g == [f EXCEPT !.from = p]
    IN  IF ~validate_phone_number(p) THEN [w |-> w, f |-> Fail(g, "Invalid phone number")]
        ELSE IF validate_amount(f.amt) # "ok"
             THEN [w |-> w, f |-> Fail(g, validate_amount(f.amt))]
        ELSE [w |-> create_invoice(w, p, f.amt), f |-> Succeed(g)]

SeqReceiveBtc ==
    /\ SeqFree
    /\ \E phone_number \in {PhoneB, PhoneC}, amount \in SeqSendAmounts :
          Returned(receive_btc(World, Call("t1", "receive_btc", phone_number, NoPhone, amount)))

SeqGetUserBalance ==
    /\ SeqFree
    /\ \E phone_number \in Callers :
          Returned(Run(World, CallBalance(Call("t1", "get_user_balance", phone_number, NoPhone, 0),
                                           phone_number, "done")))

\* the invoice ids a webhook payload may carry: the gateway's and one it
\* never issued
WebhookIds == GwIds \cup {MaxGw + 1}
WebhookStates == {"COMPLETE", "PENDING", "FAILED"}

\* intersend_webhook: a payload whose state is COMPLETE is handed to
\* complete_mpesa_topup, any other payload is ignored
intersend_webhook(w, f, state, ext) ==
    IF state = "COMPLETE"
    THEN Run(w, complete_mpesa_topup_begin(w, f, ext))
    ELSE [w |-> w, f |-> Return(f, "none", "ignored")]

SeqWebhook ==
    /\ SeqFree
    /\ \E invoice_id \in WebhookIds, state \in WebhookStates, ext \in StatusOutcomes :
          Returned(intersend_webhook(World,
                       Call("t1", "intersend_webhook", NoPhone, NoPhone, invoice_id), state, ext))

SeqNext ==
    \/ SeqSendBtc
    \/ SeqWebhook
    \/ SeqGetUserBalance
    \/ SeqReceiveBtc
    \/ SeqWithdraw
    \/ SeqBuyAirtime
    \/ SeqTopup
    \/ SeqCompleteTopup
    \/ GatewaySettle
    \/ Tick

SeqSpec == Init /\ [][SeqNext]_vars

(***************************************************************************)
(* The database-integrated handler (ussd_integration_example.py over       *)
(* user_helpers.py, session_helpers.py and transaction_helpers.py).  A row *)
(* returned from a closed database session is the copy of its columns.     *)
(***************************************************************************)
\* float(s) on plain decimal notation: [sign] digits [. digits], as the
\* fraction num / den
ParseFloat(s) ==
    LET t == Strip(s)
        neg == t # <<>> /\ Head(t) = "-"
        u == IF t # <<>> /\ Head(t) \in {"-", "+"} THEN Tail(t) ELSE t
        dots == {i \in 1..Len(u) : u[i] = "."}
        ds == FilterDigits(u)
    IN  IF Cardinality(dots) <= 1 /\ Len(ds) > 0 /\ Len(ds) + Cardinality(dots) = Len(u)
        THEN LET k == IF dots = {} THEN 0 ELSE Len(u) - (CHOOSE i \in dots : TRUE)
                 v == DigitsValue(ds, 0)
             IN  [ok |-> TRUE, num |-> IF neg THEN 0 - v ELSE v, den |-> 10 ^ k]
        ELSE [ok |-> FALSE, num |-> 0, den |-> 1]

\* text.split('*')[-1] if text else ""
LastPart(text) == LET parts == SplitStar(text, <<>>) IN parts[Len(parts)]

\* The database as one value
Db == [users |-> users, dbtx |-> dbtx, sess |-> exSess, gw |-> gw]

\* UserManager.create_or_get_user
create_or_get_user(d, phone_number) ==
    IF phone_number \in DOMAIN d.users THEN d
    ELSE [d EXCEPT !.users = @ @@ (phone_number :> 0)]

\* TransactionManager.log_send_transaction: the sender's row is debited and
\* a pending send is recorded; `res` is "tx", "none" or "raise"
log_send_transaction(d, sender_phone, recipient_phone, amount_sats) ==
    IF sender_phone \notin DOMAIN d.users THEN [d |-> d, res |-> "none"]
    ELSE IF d.users[sender_phone] < amount_sats THEN [d |-> d, res |-> "raise"]
    ELSE [d |-> [d EXCEPT !.users[sender_phone] = @ - amount_sats,
                          !.dbtx = Append(@, [user |-> sender_phone, type |-> "send",
                                              amount |-> amount_sats, status |-> "pending",
                                              recipient |-> recipient_phone])],
          res |-> "tx"]

\* send_btc_with_logging: log_send_transaction, then the transaction just
\* written is marked completed (the Lightning send itself is a comment)
send_btc_with_logging(d, sender_phone, recipient_phone, amount_sats) ==
    LET r == log_send_transaction(d, sender_phone, recipient_phone, amount_sats)
    IN  IF r.res = "tx"
        THEN [d |-> [r.d EXCEPT !.dbtx[Len(r.d.dbtx)].status = "completed"], res |-> "tx"]
        ELSE r

\* topup_mpesa_with_logging / TransactionManager.log_topup_transaction
topup_mpesa_with_logging(d, phone_number, amount_sats) ==
    LET d1 == create_or_get_user(d, phone_number)
    IN  [d |-> [d1 EXCEPT !.users[phone_number] = @ + amount_sats,
                          !.dbtx = Append(@, [user |-> phone_number, type |-> "topup",
                                              amount |-> amount_sats, status |-> "completed",
                                              recipient |-> NoPhone])],
         res |-> "tx"]

\* UssdSessionManager.end_session
end_session(d, sid) ==
    IF d.sess[sid].exists THEN [d EXCEPT !.sess[sid].active = FALSE] ELSE d

Reply(d, kind, key) == [d |-> d, kind |-> kind, key |-> key]

\* UssdHandler._handle_main_menu
ex_handle_main_menu(d, sid, user_input) ==
    IF user_input = <<>> THEN Reply(d, "CON", "menu")
    ELSE IF user_input = <<"1">>
         THEN Reply([d EXCEPT !.sess[sid].state = "send_btc"], "CON", "enter recipient")
    ELSE IF user_input = <<"4">>
         THEN Reply([d EXCEPT !.sess[sid].state = "topup_amount"], "CON", "enter kes")
    ELSE Reply(d, "CON", "invalid option")

\* UssdHandler._handle_send_btc
ex_handle_send_btc(d, sid, user_input) ==
    IF Strip(user_input) = <<>> THEN Reply(d, "CON", "enter valid phone")
    ELSE Reply([d EXCEPT !.sess[sid].recipient = user_input,
                         !.sess[sid].state = "send_amount"], "CON", "enter sats")

\* UssdHandler._handle_send_amount
ex_handle_send_amount(d, sid, phone_number, user_input) ==
    LET a == ParseInt(user_input)
    IN  IF ~a.ok THEN Reply(d, "CON", "enter a number")
        ELSE IF a.val <= 0 THEN Reply(d, "CON", "enter a positive number")
        ELSE IF phone_number \notin DOMAIN d.users \/ d.users[phone_number] < a.val
             THEN Reply(d, "END", "insufficient balance")
        ELSE Reply([d EXCEPT !.sess[sid].amount_sats = a.val,
                             !.sess[sid].state = "send_confirm"], "CON", "confirm send")

\* UssdHandler._handle_send_confirm
ex_handle_send_confirm(d, sid, phone_number, user_input) ==
    LET b == d.sess[sid]
        r == send_btc_with_logging(d, phone_number, b.recipient, b.amount_sats)
    IN  IF user_input = <<"1">>
        THEN IF b.recipient = <<>> \/ b.amount_sats = 0 THEN Reply(d, "END", "data missing")
             ELSE IF r.res = "raise" THEN Reply(d, "END", "insufficient balance")
             ELSE IF r.res = "tx" THEN Reply(end_session(r.d, sid), "END", "send successful")
             ELSE Reply(d, "END", "send failed")
        ELSE IF user_input = <<"0">> THEN Reply(end_session(d, sid), "END", "cancelled")
        ELSE Reply(d, "CON", "invalid option")

ExTopupMinKes == 10
ExTopupMaxKes == 70000
ExSatsPerKes == 100

\* UssdHandler._handle_topup_amount
ex_handle_topup_amount(d, sid, user_input) ==
    LET k == ParseFloat(user_input)
        amount_sats == (k.num * ExSatsPerKes) \div k.den
    IN  IF ~k.ok THEN Reply(d, "CON", "enter a number")
        ELSE IF k.num <= 0 THEN Reply(d, "CON", "enter a positive number")
        ELSE IF k.num < ExTopupMinKes * k.den THEN Reply(d, "CON", "minimum 10 KES")
        ELSE IF k.num > ExTopupMaxKes * k.den THEN Reply(d, "CON", "maximum 70,000 KES")
        ELSE Reply([d EXCEPT !.sess[sid].kes = [num |-> k.num, den |-> k.den],
                             !.sess[sid].topup_sats = amount_sats,
                             !.sess[sid].state = "topup_confirm"], "CON", "confirm topup")

\* UssdHandler._handle_topup_confirm.  initiate_mpesa_stk_push returns the
\* tuple (success, response); the .get on it raises AttributeError, so after
\* the gateway call (`ext`) control always reaches the except branch, which
\* calls topup_mpesa_with_logging
ex_handle_topup_confirm(d, sid, phone_number, user_input, ext) ==
    LET b == d.sess[sid]
        free == {i \in DOMAIN d.gw : d.gw[i] = "NONE"}
        pushed == IF ext = "ok" /\ free # {}
                  THEN [d EXCEPT !.gw[CHOOSE i \in free : \A j \in free : i <= j] = "PENDING"]
                  ELSE d
        r == topup_mpesa_with_logging(pushed, phone_number, b.topup_sats)
    IN  IF user_input = <<"1">>
        THEN IF b.kes.num = 0 \/ b.topup_sats = 0 THEN Reply(d, "END", "data missing")
             ELSE Reply(end_session(r.d, sid), "END", "payment initiated")
        ELSE IF user_input = <<"0">> THEN Reply(end_session(d, sid), "END", "cancelled")
        ELSE Reply(d, "CON", "invalid option")

\* UssdHandler.handle_ussd_request
handle_ussd_request(d, sid, phone_number, text, ext) ==
    LET d1 == create_or_get_user(d, phone_number)
        d2 == IF d1.sess[sid].exists /\ d1.sess[sid].active THEN d1
              ELSE [d1 EXCEPT !.sess[sid] = [NoSession EXCEPT !.exists = TRUE, !.active = TRUE]]
        user_input == IF text = <<>> THEN <<>> ELSE LastPart(text)
        current_state == d2.sess[sid].state
    IN  CASE current_state = "main_menu" -> ex_handle_main_menu(d2, sid, user_input)
          [] current_state = "send_btc" -> ex_handle_send_btc(d2, sid, user_input)
          [] current_state = "send_amount" -> ex_handle_send_amount(d2, sid, phone_number, user_input)
          [] current_state = "send_confirm" -> ex_handle_send_confirm(d2, sid, phone_number, user_input)
          [] current_state = "topup_amount" -> ex_handle_topup_amount(d2, sid, user_input)
          [] current_state = "topup_confirm" ->
                ex_handle_topup_confirm(d2, sid, phone_number, user_input, ext)
          [] OTHER -> ex_handle_main_menu(d2, sid, <<>>)

MaxDbOps == 4
ExTexts ==
    { <<>>, <<"1">>, <<"4">>, <<"0">>, <<"x">>,
      <<"4", "*", "1", "0">>, <<"4", "*", "9">>, <<"4", "*", "1", "0", ".", "5">>,
      <<"4", "*", "1", "0", "*", "1">>, <<"1", "*">> \o PhoneB, <<"1", "*", "6", "0">> }
DbSendAmounts == {60, 5000}

DbInstall(d) ==
    /\ users' = d.users
    /\ dbtx' = d.dbtx
    /\ exSess' = d.sess
    /\ gw' = d.gw
    /\ UNCHANGED <<mbal, invoices, nextOid, payments, txlog, pending, now, dbinv>>
    /\ UNCHANGED engineVars

\* one request to the /ussd endpoint of the database-integrated handler
ExRequest ==
    /\ opCount < MaxDbOps
    /\ \E sid \in SessionIds, phone \in Payers, text \in ExTexts, ext \in GwOutcomes :
          LET r == handle_ussd_request(Db, sid, phone, text, ext)
          IN  /\ DbInstall(r.d)
              /\ exResp' = [kind |-> r.kind, key |-> r.key]
              /\ thr' = [thr EXCEPT !["t1"] =
                             Return(Call("t1", exSess[sid].state, phone, NoPhone, 0), r.kind, r.key)]
    /\ opCount' = opCount + 1

\* a direct call of send_btc_with_logging
DbSendBtc ==
    /\ opCount < MaxDbOps
    /\ \E from \in Callers, to \in Callers, amount \in DbSendAmounts :
          LET r == send_btc_with_logging(Db, from, to, amount)
          IN  /\ DbInstall(r.d)
              /\ thr' = [thr EXCEPT !["t1"] =
                             Return(Call("t1", "send_btc_with_logging", from, to, amount), r.res, "")]
    /\ opCount' = opCount + 1
    /\ UNCHANGED exResp

DbNext ==
    \/ ExRequest
    \/ DbSendBtc

DbSpec == Init /\ [][DbNext]_vars

(***************************************************************************)
(* The request engine of app.py with the natural-language overlay of       *)
(* ai_processor.py                                                         *)
(***************************************************************************)
W_back == <<"b", "a", "c", "k">>
W_rates == <<"r", "a", "t", "e", "s">>
W_ratesq == <<"r", "a", "t", "e", "s", "?">>
W_help == <<"h", "e", "l", "p">>
W_yes == <<"y", "e", "s">>
W_y == <<"y">>
W_confirm == <<"c", "o", "n", "f", "i", "r", "m">>
W_no == <<"n", "o">>
W_n == <<"n">>
W_cancel == <<"c", "a", "n", "c", "e", "l">>
W_send == <<"s", "e", "n", "d">>
W_bob == <<"b", "o", "b">>
W_alice == <<"a", "l", "i", "c", "e">>
W_charlie == <<"c", "h", "a", "r", "l", "i", "e">>

\* _is_informational_request: informational_keywords
InformationalKeywords ==
    { <<"e", "x", "c", "h", "a", "n", "g", "e">>,
      <<"r", "a", "t", "e">>,
      <<"h", "o", "w", " ", "m", "u", "c", "h">>,
      <<"w", "h", "a", "t", " ", "i", "s">>,
      <<"t", "e", "l", "l", " ", "m", "e">>,
      <<"e", "x", "p", "l", "a", "i", "n">>,
      <<"h", "e", "l", "p">>,
      <<"i", "n", "f", "o">>,
      <<"a", "b", "o", "u", "t">>,
      <<"f", "e", "e", "s">>,
      <<"c", "o", "s", "t">>,
      <<"p", "r", "i", "c", "e">>,
      <<"c", "o", "n", "t", "i", "n", "u", "e">>,
      <<"r", "e", "s", "u", "m", "e">>,
      <<"b", "a", "c", "k">>,
      <<"p", "r", "o", "c", "e", "e", "d">>,
      <<"c", "a", "r", "r", "y", " ", "o", "n">> }
RateWords == { <<"e", "x", "c", "h", "a", "n", "g", "e">>, <<"r", "a", "t", "e">>, <<"h", "o", "w", " ", "m", "u", "c", "h">> }
ResumeWords ==
    { <<"c", "o", "n", "t", "i", "n", "u", "e">>,
      <<"r", "e", "s", "u", "m", "e">>,
      <<"p", "r", "o", "c", "e", "e", "d">>,
      <<"c", "a", "r", "r", "y", " ", "o", "n">>,
      <<"b", "a", "c", "k">> }

\* "*".join(parts)
RECURSIVE JoinStar(_)
JoinStar(parts) ==
    IF Len(parts) = 0 THEN <<>>
    ELSE IF Len(parts) = 1 THEN parts[1]
    ELSE parts[1] \o <<"*">> \o JoinStar(Tail(parts))

\* The engine as one value: the ledger, user_sessions and session_context.
\* `sync` is the phone whose balance the request has read with
\* get_user_balance (the read returns the database balance and rewrites a
\* Balance atom that differs from it); `raised` records that a catch-all
\* `except Exception` caught an exception while the request was processed;
\* `ai` that the request was handed to process_with_ai.
Engine ==
    [w |-> World, us |-> user_sessions, ctx |-> session_context, sync |-> NoPhone,
     raised |-> FALSE, ai |-> FALSE]

\* A handler's return: the response, and the operation of USSDHandlers whose
\* result the response reports (the operation is the handler's last call)
NoCall == [op |-> "none", from |-> NoPhone, to |-> NoPhone, amt |-> 0]
Resp(e, kind, key) == [e |-> e, kind |-> kind, key |-> key, call |-> NoCall]
Calling(e, op, from, to, amt, okKey) ==
    [e |-> e, kind |-> "END", key |-> okKey,
     call |-> [op |-> op, from |-> from, to |-> to, amt |-> amt]]

Caught(e) == [e EXCEPT !.raised = TRUE]

\* the value get_user_balance returns
BalanceRead(e, phone_number) == get_db_balance(e.w.users, phone_number)
Reading(e, phone_number) == [e EXCEPT !.sync = phone_number]

get_or_create_session(e, sid, phone_number) ==
    IF e.us[sid].exists THEN e
    ELSE [e EXCEPT !.us[sid] = [NoUssdSession EXCEPT !.exists = TRUE,
                                                     !.phone_number = phone_number]]

clear_session(e, sid) == [e EXCEPT !.us[sid] = NoUssdSession]

set_state(e, sid, state) == [e EXCEPT !.us[sid].state = state]

set_session_context(e, sid, operation, awaiting, kes_amount, sats) ==
    [e EXCEPT !.ctx[sid] = [present |-> TRUE, operation |-> operation,
                            awaiting |-> awaiting, kes_amount |-> kes_amount, sats |-> sats]]

clear_session_context(e, sid) == [e EXCEPT !.ctx[sid] = NoContext]

handle_main_menu(e, sid) == Resp(Reading(e, e.us[sid].phone_number), "CON", "main menu")

\* handle_send_btc_phone sending a refused number back to the main menu
handle_send_btc_phone_resets(e, sid, phone_input) ==
    LET normalized_phone == normalize_phone_number(phone_input)
    IN  IF Lower(phone_input) = W_back THEN handle_main_menu(set_state(e, sid, "main_menu"), sid)
        ELSE IF ~validate_phone_number(normalized_phone)
             THEN Resp(set_state(e, sid, "main_menu"), "CON", "invalid phone, enter recipient")
        ELSE Resp([e EXCEPT !.us[sid].recipient_phone = normalized_phone,
                            !.us[sid].state = "send_btc_amount"], "CON", "enter sats")

handle_send_btc_phone(e, sid, phone_input) ==
    LET normalized_phone == normalize_phone_number(phone_input)
    IN  IF Lower(phone_input) = W_back THEN handle_main_menu(set_state(e, sid, "main_menu"), sid)
        ELSE IF ~validate_phone_number(normalized_phone)
             THEN Resp(e, "CON", "invalid phone, enter recipient")
        ELSE Resp([e EXCEPT !.us[sid].recipient_phone = normalized_phone,
                            !.us[sid].state = "send_btc_amount"], "CON", "enter sats")

handle_send_btc_amount(e, sid, amount_input) ==
    LET s == e.us[sid]
        a == ParseInt(amount_input)
    IN  IF Lower(amount_input) = W_back
        THEN Resp(set_state(e, sid, "send_btc_phone"), "CON", "enter recipient")
        ELSE IF ~a.ok THEN Resp(e, "CON", "invalid amount, enter sats")
        ELSE IF validate_amount(a.val) # "ok" THEN Resp(e, "CON", validate_amount(a.val))
        ELSE Calling(clear_session(e, sid), "send_btc", s.phone_number, s.recipient_phone,
                     a.val, "sent")

handle_receive_btc_amount(e, sid, amount_input) ==
    LET s == e.us[sid]
        a == ParseInt(amount_input)
    IN  IF Lower(amount_input) = W_back THEN handle_main_menu(set_state(e, sid, "main_menu"), sid)
        ELSE IF ~a.ok THEN Resp(e, "CON", "invalid amount, enter sats")
        ELSE IF validate_amount(a.val) # "ok" THEN Resp(e, "CON", validate_amount(a.val))
        ELSE Calling(clear_session(e, sid), "receive_btc", s.phone_number, NoPhone, a.val,
                     "invoice created")

handle_send_invoice_phone(e, sid, phone_input) ==
    LET normalized_phone == normalize_phone_number(phone_input)
    IN  IF Lower(phone_input) = W_back THEN handle_main_menu(set_state(e, sid, "main_menu"), sid)
        ELSE IF ~validate_phone_number(normalized_phone)
             THEN Resp(e, "CON", "invalid phone, enter recipient")
        ELSE Resp([e EXCEPT !.us[sid].invoice_recipient = normalized_phone,
                            !.us[sid].state = "send_invoice_amount"], "CON", "enter sats")

handle_send_invoice_amount(e, sid, amount_input) ==
    LET s == e.us[sid]
        a == ParseInt(amount_input)
    IN  IF Lower(amount_input) = W_back
        THEN Resp(set_state(e, sid, "send_invoice_phone"), "CON", "enter recipient")
        ELSE IF ~a.ok THEN Resp(e, "CON", "invalid amount, enter sats")
        ELSE IF validate_amount(a.val) # "ok" THEN Resp(e, "CON", validate_amount(a.val))
        ELSE Calling(clear_session(e, sid), "send_invoice", s.phone_number,
                     s.invoice_recipient, a.val, "invoice sent")


\* handle_topup_amount.  env.sig is the thread the request runs on:
\* signal.signal raises ValueError off the main thread, which the inner
\* `except Exception` catches before the gateway is called.
handle_topup_amount(e, sid, amount_input, env) ==
    LET s == e.us[sid]
        cleaned_input == FilterDigits(Strip(amount_input))
        kes_amount == DigitsValue(cleaned_input, 0)
    IN  IF Lower(amount_input) = W_back THEN handle_main_menu(set_state(e, sid, "main_menu"), sid)
        ELSE IF Lower(amount_input) \in {W_ratesq, W_rates} THEN Resp(e, "END", "rate")
        ELSE IF cleaned_input = <<>> THEN Resp(e, "CON", "invalid amount, enter kes")
        ELSE IF kes_amount < MinTopupKes THEN Resp(e, "CON", "minimum top-up, enter kes")
        ELSE IF env.sig = "worker"
             THEN Resp(Caught(clear_session(e, sid)), "END", "Payment service error")
        ELSE Calling(clear_session(e, sid), "topup_via_mpesa", s.phone_number, s.phone_number,
                     kes_amount, "STK push sent")

handle_withdraw_amount(e, sid, amount_input) ==
    LET s == e.us[sid]
        a == ParseInt(amount_input)
        sats_equivalent == kes_to_sats(a.val)
        e1 == Reading(e, s.phone_number)
    IN  IF Lower(amount_input) = W_back THEN handle_main_menu(set_state(e, sid, "main_menu"), sid)
        ELSE IF ~a.ok THEN Resp(e, "CON", "invalid amount, enter kes")
        ELSE IF a.val < MinWithdrawKes THEN Resp(e, "CON", "minimum withdrawal, enter kes")
        ELSE IF BalanceRead(e, s.phone_number) < sats_equivalent
             THEN Resp(e1, "CON", "insufficient balance, enter kes")
        ELSE Resp([e1 EXCEPT !.us[sid].withdraw_kes = a.val,
                             !.us[sid].state = "withdraw_phone"], "CON", "enter mpesa phone")

handle_withdraw_phone(e, sid, phone_input) ==
    LET s == e.us[sid]
        normalized_phone == normalize_phone_number(phone_input)
    IN  IF Lower(phone_input) = W_back
        THEN Resp(set_state(e, sid, "withdraw_amount"), "CON", "enter kes")
        ELSE IF ~validate_phone_number(normalized_phone)
             THEN Resp(e, "CON", "invalid phone, enter mpesa phone")
        ELSE Calling(clear_session(e, sid), "withdraw_to_mpesa", s.phone_number,
                     normalized_phone, s.withdraw_kes, "withdrawn")

\* handle_airtime_amount without the range check
handle_airtime_amount_unchecked(e, sid, amount_input) ==
    LET a == ParseInt(amount_input)
    IN  IF Lower(amount_input) = W_back THEN handle_main_menu(set_state(e, sid, "main_menu"), sid)
        ELSE IF ~a.ok THEN Resp(e, "CON", "invalid amount, enter kes")
        ELSE Resp([e EXCEPT !.us[sid].airtime_kes = a.val,
                            !.us[sid].state = "airtime_phone"], "CON", "airtime for whom")

handle_airtime_amount(e, sid, amount_input) ==
    LET a == ParseInt(amount_input)
    IN  IF Lower(amount_input) = W_back THEN handle_main_menu(set_state(e, sid, "main_menu"), sid)
        ELSE IF ~a.ok THEN Resp(e, "CON", "invalid amount, enter kes")
        ELSE IF a.val < MinAirtimeKes THEN Resp(e, "CON", "minimum airtime, enter kes")
        ELSE IF a.val > MaxAirtimeKes THEN Resp(e, "CON", "maximum airtime, enter kes")
        ELSE Resp([e EXCEPT !.us[sid].airtime_kes = a.val,
                            !.us[sid].state = "airtime_phone"], "CON", "airtime for whom")

handle_airtime_phone(e, sid, phone_input) ==
    LET s == e.us[sid]
        airtime_phone == IF phone_input = <<"1">> THEN s.phone_number
                         ELSE normalize_phone_number(phone_input)
    IN  IF Lower(phone_input) = W_back
        THEN Resp(set_state(e, sid, "airtime_amount"), "CON", "enter kes")
        ELSE IF phone_input = <<"2">> THEN Resp(e, "CON", "enter airtime phone")
        ELSE IF phone_input # <<"1">> /\ ~validate_phone_number(airtime_phone)
             THEN Resp(e, "CON", "invalid phone, enter airtime phone")
        ELSE Calling(clear_session(e, sid), "buy_airtime", s.phone_number, airtime_phone,
                     s.airtime_kes, "airtime bought")


(***************************************************************************)
(* ai_processor.py.  The language model is an external service: what       *)
(* process_natural_language returns is an input of the request, the pair   *)
(* (action, params).  An amount is absent, a number, or a value on which    *)
(* int() raises.                                                           *)
(***************************************************************************)
NoAmount == [given |-> FALSE, ok |-> TRUE, val |-> 0]
BadAmount == [given |-> TRUE, ok |-> FALSE, val |-> 0]
Amt(v) == [given |-> TRUE, ok |-> TRUE, val |-> v]

Intent(action, recipient, amount, currency, phone, msg) ==
    [action |-> action, recipient |-> recipient, amount |-> amount, currency |-> currency,
     phone_number |-> phone, msg |-> msg]

\* `'amount' in params and params['amount']`
Truthy(amount) == amount.given /\ (~amount.ok \/ amount.val # 0)

AiMinSendSats == 10
AiMaxSendSats == 1000000

\* int(sats * 150 / 1000)
sats_to_kes(sats) == (sats * RateKes) \div RateSats

resolve_recipient(recipient) ==
    CASE Lower(recipient) = W_alice -> PhoneA
      [] Lower(recipient) = W_bob -> PhoneB
      [] Lower(recipient) = W_charlie -> PhoneC
      [] OTHER -> recipient

\* should_use_ai without the look at the ai context
should_use_ai_without_context(e, user_input, sid) ==
    IF user_input = <<>> \/ Strip(user_input) = <<>> THEN FALSE
    ELSE IF Len(Strip(user_input)) = 1 /\ IsDigit(Strip(user_input)) THEN FALSE
    ELSE TRUE

should_use_ai(e, user_input, sid) ==
    IF user_input = <<>> \/ Strip(user_input) = <<>> THEN FALSE
    ELSE IF e.ctx[sid].present THEN TRUE
    ELSE IF Len(Strip(user_input)) = 1 /\ IsDigit(Strip(user_input)) THEN FALSE
    ELSE TRUE

_is_informational_request(user_input) ==
    \E k \in InformationalKeywords : Contains(Lower(user_input), k)

_handle_informational_request_with_context(e, sid, user_input) ==
    LET c == e.ctx[sid]
        user_lower == Lower(user_input)
        resumable == \/ c.operation \in {"topup_mpesa", "withdraw_mpesa"} /\ c.awaiting = "amount"
                     \/ c.operation = "send_bitcoin" /\ c.awaiting \in {"amount", "recipient"}
    IN  IF \E k \in RateWords : Contains(user_lower, k)
        THEN Resp(e, "CON", IF resumable THEN "rate, pending prompt" ELSE "rate, press 0")
        ELSE IF \E k \in ResumeWords : Contains(user_lower, k)
        THEN Resp(e, "CON", IF resumable THEN "pending prompt" ELSE "no pending operation")
        ELSE IF Contains(user_lower, W_help)
        THEN Resp(e, "CON", IF c.awaiting = "amount" THEN "help, enter amount"
                            ELSE IF c.awaiting \in {"recipient", "phone_number"}
                                 THEN "help, enter phone"
                            ELSE "help")
        ELSE Resp(e, "CON", "type continue to resume")

_handle_context_based_response(e, sid, phone_number, user_input, env) ==
    LET c == e.ctx[sid]
        a == ParseInt(user_input)
        answer == Lower(Strip(user_input))
        normalized_phone == normalize_phone_number(Strip(user_input))
    IN  IF _is_informational_request(user_input)
        THEN _handle_informational_request_with_context(e, sid, user_input)
        ELSE IF c.operation = "topup_mpesa" /\ c.awaiting = "amount"
        THEN IF ~a.ok THEN Resp(e, "CON", "invalid amount, enter kes")
             ELSE IF a.val < MinTopupKes THEN Resp(e, "CON", "minimum top-up, enter kes")
             ELSE Resp(set_session_context(e, sid, "topup_mpesa", "confirmation", a.val,
                                           kes_to_sats(a.val)), "CON", "confirm top-up")
        ELSE IF c.operation = "topup_mpesa" /\ c.awaiting = "confirmation"
        THEN IF answer \in {<<"1">>, W_yes, W_y, W_confirm}
             THEN Calling(clear_session_context(e, sid), "topup_via_mpesa", phone_number,
                          phone_number, c.kes_amount, "STK push sent")
             ELSE IF answer \in {<<"2">>, W_no, W_n, W_cancel}
             THEN Resp(clear_session_context(e, sid), "END", "top-up cancelled")
             ELSE Resp(e, "CON", "confirm top-up")
        ELSE IF c.operation = "withdraw_mpesa" /\ c.awaiting = "amount"
        THEN IF ~a.ok THEN Resp(e, "CON", "invalid amount, enter kes")
             ELSE IF a.val < MinWithdrawKes THEN Resp(e, "CON", "minimum withdrawal, enter kes")
             ELSE IF BalanceRead(e, phone_number) < kes_to_sats(a.val)
                  THEN Resp(Reading(e, phone_number), "CON", "insufficient balance, enter kes")
             ELSE Resp(set_session_context(Reading(e, phone_number), sid, "withdraw_mpesa",
                                           "phone_number", a.val, kes_to_sats(a.val)),
                       "CON", "enter mpesa phone")
        ELSE IF c.operation = "withdraw_mpesa" /\ c.awaiting = "phone_number"
        THEN IF ~validate_phone_number(normalized_phone)
             THEN Resp(e, "CON", "invalid phone, enter mpesa phone")
             ELSE Calling(clear_session_context(e, sid), "withdraw_to_mpesa", phone_number,
                          normalized_phone, c.kes_amount, "withdrawn")
        ELSE IF c.operation = "buy_airtime" /\ c.awaiting = "amount"
        THEN IF ~a.ok THEN Resp(e, "CON", "invalid amount, enter kes")
             ELSE IF a.val < MinAirtimeKes THEN Resp(e, "CON", "minimum airtime, enter kes")
             ELSE IF a.val > MaxAirtimeKes THEN Resp(e, "CON", "maximum airtime, enter kes")
             ELSE Resp(set_session_context(e, sid, "buy_airtime", "phone_confirmation",
                                           a.val, 0), "CON", "airtime for whom")
        ELSE IF c.operation = "buy_airtime" /\ c.awaiting = "phone_confirmation"
        THEN IF Strip(user_input) = <<"1">>
             THEN Calling(clear_session_context(e, sid), "buy_airtime", phone_number,
                          phone_number, c.kes_amount, "airtime bought")
             ELSE IF Strip(user_input) = <<"2">>
             THEN Resp(set_session_context(e, sid, "buy_airtime", "phone_number",
                                           c.kes_amount, 0), "CON", "enter airtime phone")
             ELSE Resp(e, "CON", "airtime for whom")
        ELSE IF c.operation = "buy_airtime" /\ c.awaiting = "phone_number"
        THEN IF ~validate_phone_number(normalized_phone)
             THEN Resp(e, "CON", "invalid phone, enter airtime phone")
             ELSE Calling(clear_session_context(e, sid), "buy_airtime", phone_number,
                          normalized_phone, c.kes_amount, "airtime bought")
        ELSE Resp(clear_session_context(e, sid), "END", "didn't understand your response")


\* The _handle_ai_* handlers wrap their body in `except Exception`: an
\* exception raised in the body is answered from the except clause
_handle_ai_send_bitcoin(e, sid, phone_number, params) ==
    LET recipient == resolve_recipient(params.recipient)
        amount_sats == IF params.currency = "kes" THEN kes_to_sats(params.amount.val)
                       ELSE params.amount.val
    IN  IF params.recipient = NoPhone \/ ~params.amount.given
        THEN Resp(e, "CON", "enter recipient")
        ELSE IF ~params.amount.ok THEN Resp(Caught(e), "CON", "enter recipient")
        ELSE IF amount_sats < AiMinSendSats THEN Resp(e, "CON", "minimum send, enter sats")
        ELSE IF amount_sats > AiMaxSendSats THEN Resp(e, "CON", "maximum send, enter sats")
        ELSE IF BalanceRead(e, phone_number) < amount_sats
             THEN Resp(e, "CON", "insufficient balance, enter sats")
        ELSE Calling(e, "send_btc", phone_number, recipient, amount_sats, "sent")

_handle_ai_topup_mpesa(e, sid, params) ==
    IF Truthy(params.amount)
    THEN IF ~params.amount.ok THEN Resp(Caught(e), "CON", "enter kes")
         ELSE IF params.amount.val < MinTopupKes
              THEN Resp(set_session_context(e, sid, "topup_mpesa", "amount", 0, 0),
                        "CON", "minimum top-up, enter kes")
         ELSE Resp(set_session_context(e, sid, "topup_mpesa", "confirmation",
                                       params.amount.val, kes_to_sats(params.amount.val)),
                   "CON", "confirm top-up")
    ELSE Resp(set_session_context(e, sid, "topup_mpesa", "amount", 0, 0), "CON", "enter kes")

_handle_ai_withdraw_mpesa(e, sid, phone_number, params) ==
    LET inKes == params.currency = "kes"
        sats_needed == IF inKes THEN kes_to_sats(params.amount.val) ELSE params.amount.val
        kes_amount == IF inKes THEN params.amount.val ELSE sats_to_kes(params.amount.val)
    IN  IF ~Truthy(params.amount)
        THEN Resp(set_session_context(e, sid, "withdraw_mpesa", "amount", 0, 0), "CON", "enter kes")
        ELSE IF ~params.amount.ok THEN Resp(Caught(e), "CON", "enter kes")
        ELSE IF kes_amount < MinWithdrawKes
             THEN Resp(set_session_context(e, sid, "withdraw_mpesa", "amount", 0, 0),
                       "CON", "minimum withdrawal, enter kes")
        ELSE IF BalanceRead(e, phone_number) < sats_needed
             THEN Resp(set_session_context(e, sid, "withdraw_mpesa", "amount", 0, 0),
                       "CON", "insufficient balance, enter kes")
        ELSE Resp(set_session_context(e, sid, "withdraw_mpesa", "phone_number", kes_amount,
                                      sats_needed), "CON", "enter mpesa phone")

_handle_ai_generate_invoice(e, phone_number, params) ==
    IF ~params.amount.given \/ ~params.amount.ok
    THEN Resp(Caught(e), "END", "Error generating invoice")
    ELSE Calling(e, "receive_btc", phone_number, NoPhone, params.amount.val, "invoice created")

_handle_ai_buy_airtime(e, sid, phone_number, params) ==
    LET kes_amount == params.amount.val
        airtime_phone == IF params.phone_number = NoPhone THEN phone_number
                         ELSE params.phone_number
        normalized_phone == normalize_phone_number(airtime_phone)
    IN  IF ~Truthy(params.amount)
        THEN Resp(set_session_context(e, sid, "buy_airtime", "amount", 0, 0), "CON", "enter kes")
        ELSE IF ~params.amount.ok
             THEN Resp(Caught(clear_session_context(e, sid)), "CON", "enter kes")
        ELSE IF kes_amount < MinAirtimeKes
             THEN Resp(set_session_context(e, sid, "buy_airtime", "amount", 0, 0),
                       "CON", "minimum airtime, enter kes")
        ELSE IF kes_amount > MaxAirtimeKes
             THEN Resp(set_session_context(e, sid, "buy_airtime", "amount", 0, 0),
                       "CON", "maximum airtime, enter kes")
        ELSE IF airtime_phone = phone_number
             THEN Resp(set_session_context(e, sid, "buy_airtime", "phone_confirmation",
                                           kes_amount, 0), "CON", "airtime for whom")
        ELSE IF ~validate_phone_number(normalized_phone)
             THEN Resp(set_session_context(e, sid, "buy_airtime", "phone_number",
                                           kes_amount, 0), "CON", "invalid phone, enter airtime phone")
        ELSE Calling(clear_session_context(e, sid), "buy_airtime", phone_number,
                     normalized_phone, kes_amount, "airtime bought")

\* process_with_ai: the balance read, then the follow-up of an ai context or
\* the action the language model chose (env.llm).  _handle_ai_check_balance
\* and _handle_ai_show_menu read the balance again and answer; an exception
\* outside the handlers (the .lower() of a reply without content) is answered
\* by its own except clause.
process_with_ai(e, user_input, phone_number, sid, env) ==
    LET e1 == [Reading(e, phone_number) EXCEPT !.ai = TRUE]
        p == env.llm
    IN  IF e1.ctx[sid].present /\ e1.ctx[sid].awaiting # ""
        THEN _handle_context_based_response(e1, sid, phone_number, LastPart(user_input), env)
        ELSE CASE p.action = "send_bitcoin" -> _handle_ai_send_bitcoin(e1, sid, phone_number, p)
               [] p.action = "check_balance" -> Resp(e1, "END", "balance")
               [] p.action = "topup_mpesa" -> _handle_ai_topup_mpesa(e1, sid, p)
               [] p.action = "withdraw_mpesa" -> _handle_ai_withdraw_mpesa(e1, sid, phone_number, p)
               [] p.action = "generate_invoice" -> _handle_ai_generate_invoice(e1, phone_number, p)
               [] p.action = "show_menu" -> Resp(e1, "CON", "main menu")
               [] p.action = "transaction_history" -> Resp(e1, "END", "history")
               [] p.action = "help" -> Resp(e1, "END", "help")
               [] p.action = "buy_airtime" -> _handle_ai_buy_airtime(e1, sid, phone_number, p)
               [] p.action = "general_response" ->
                     IF p.msg = "ask" THEN Resp(e1, "CON", "general response")
                     ELSE IF p.msg = "tell" THEN Resp(e1, "END", "general response")
                     ELSE Resp(Caught(e1), "END", "Sorry, there was an error")
               [] OTHER -> Resp(e1, "END", "I didn't understand that")


(***************************************************************************)
(* app.py: routing of one request                                          *)
(***************************************************************************)
handle_main_menu_selection(e, sid, selection, text_parts, env) ==
    LET s == e.us[sid]
        full_text == IF Len(text_parts) > 1 THEN JoinStar(text_parts) ELSE selection
    IN  IF should_use_ai(e, full_text, sid)
        THEN process_with_ai(e, full_text, s.phone_number, sid, env)
        ELSE IF Len(text_parts) = 2 /\ text_parts[1] = <<"4">> /\ IsDigit(text_parts[2])
        THEN handle_topup_amount(set_state(e, sid, "topup_amount"), sid, text_parts[2], env)
        ELSE IF Lower(selection) \in {W_ratesq, W_rates} THEN Resp(e, "END", "rate")
        ELSE IF Lower(selection) = W_help THEN Resp(e, "END", "help")
        ELSE CASE selection = <<"1">> ->
                      Resp(set_state(e, sid, "send_btc_phone"), "CON", "enter recipient")
               [] selection = <<"2">> ->
                      Resp(set_state(e, sid, "receive_btc_amount"), "CON", "enter sats")
               [] selection = <<"3">> ->
                      Resp(set_state(e, sid, "send_invoice_phone"), "CON", "enter recipient")
               [] selection = <<"4">> ->
                      Resp(set_state(e, sid, "topup_amount"), "CON", "enter kes")
               [] selection = <<"5">> ->
                      Resp(set_state(e, sid, "withdraw_amount"), "CON", "enter kes")
               [] selection = <<"6">> ->
                      Resp(set_state(e, sid, "airtime_amount"), "CON", "enter kes")
               [] selection = <<"0">> -> Resp(clear_session(e, sid), "END", "thank you")
               [] OTHER -> handle_main_menu(e, sid)

\* the block of handle_user_input for several steps in one request
MultiStep(e, sid, text_parts, env) ==
    LET menu_selection == text_parts[1]
        step == text_parts[2]
    IN  CASE menu_selection = <<"4">> ->
                 handle_topup_amount(set_state(e, sid, "topup_amount"), sid, step, env)
          [] menu_selection = <<"1">> ->
                 handle_send_btc_phone(set_state(e, sid, "send_btc_phone"), sid, step)
          [] menu_selection = <<"2">> ->
                 handle_receive_btc_amount(set_state(e, sid, "receive_btc_amount"), sid, step)
          [] menu_selection = <<"3">> ->
                 handle_send_invoice_phone(set_state(e, sid, "send_invoice_phone"), sid, step)
          [] menu_selection = <<"6">> ->
                 handle_withdraw_amount(set_state(e, sid, "withdraw_amount"), sid, step)
          [] menu_selection = <<"7">> ->
                 handle_airtime_amount(set_state(e, sid, "airtime_amount"), sid, step)
          [] OTHER ->
                 handle_main_menu_selection(e, sid, text_parts[Len(text_parts)], text_parts, env)

\* handle_user_input.  The only statement of its try block that raises to
\* its own except clause is the log line of the "4*<digits>" recovery, which
\* names an undefined variable.
handle_user_input(e, sid, text_parts, env) ==
    LET s == e.us[sid]
        full_text == JoinStar(text_parts)
        current_input == text_parts[Len(text_parts)]
    IN  IF s.state = "main_menu" /\ should_use_ai(e, full_text, sid)
        THEN process_with_ai(e, full_text, s.phone_number, sid, env)
        ELSE IF Len(text_parts) > 1 /\ s.state = "main_menu"
        THEN MultiStep(e, sid, text_parts, env)
        ELSE IF /\ Len(text_parts) = 2 /\ text_parts[1] = <<"4">> /\ IsDigit(text_parts[2])
                /\ s.state = "main_menu"
        THEN Resp(Caught(clear_session(e, sid)), "END", "Error processing request")
        ELSE CASE s.state = "main_menu" ->
                      handle_main_menu_selection(e, sid, current_input, text_parts, env)
               [] s.state = "send_btc_phone" -> handle_send_btc_phone(e, sid, current_input)
               [] s.state = "send_btc_amount" -> handle_send_btc_amount(e, sid, current_input)
               [] s.state = "receive_btc_amount" ->
                      handle_receive_btc_amount(e, sid, current_input)
               [] s.state = "send_invoice_phone" ->
                      handle_send_invoice_phone(e, sid, current_input)
               [] s.state = "send_invoice_amount" ->
                      handle_send_invoice_amount(e, sid, current_input)
               [] s.state = "topup_amount" -> handle_topup_amount(e, sid, current_input, env)
               [] s.state = "withdraw_amount" -> handle_withdraw_amount(e, sid, current_input)
               [] s.state = "withdraw_phone" -> handle_withdraw_phone(e, sid, current_input)
               [] s.state = "airtime_amount" -> handle_airtime_amount(e, sid, current_input)
               [] s.state = "airtime_phone" -> handle_airtime_phone(e, sid, current_input)
               [] OTHER -> handle_main_menu(set_state(e, sid, "main_menu"), sid)

\* the operations of USSDHandlers, each run to its return
Op(w, op, from, to, amt) == NewFrame(w, op, from, to, amt, 0, 0)

send_invoice(w, f) ==
    IF \/ ~validate_phone_number(normalize_phone_number(f.from))
       \/ ~validate_phone_number(normalize_phone_number(f.to))
    THEN [w |-> w, f |-> Fail(f, "Invalid phone number")]
    ELSE receive_btc(w, f)

Begin(f) ==
    CASE f.op = "send_btc" -> send_btc_begin(f)
      [] f.op = "withdraw_to_mpesa" -> withdraw_begin(f)
      [] f.op = "buy_airtime" -> buy_airtime_begin(f)
      [] f.op = "get_user_balance" -> CallBalance(f, f.from, "done")
      [] OTHER -> Succeed(f)

Perform(w, f, ext) ==
    CASE f.op = "topup_via_mpesa" -> topup_via_mpesa(w, f, ext)
      [] f.op = "receive_btc" -> receive_btc(w, f)
      [] f.op = "send_invoice" -> send_invoice(w, f)
      [] OTHER -> Run(w, Begin(f))

Answer(r, p) ==
    [e |-> [r.e EXCEPT !.w = p.w, !.sync = NoPhone], kind |-> r.kind,
     key |-> IF p.f.res = "ok" THEN r.key ELSE p.f.msg, op |-> r.call.op]

\* the balance read of a handler, then the operation it calls
Served(r, ext) ==
    The({Answer(r, p) :
           p \in {Perform(w, Op(w, r.call.op, r.call.from, r.call.to, r.call.amt), ext) :
                    w \in {IF r.e.sync = NoPhone THEN r.e.w
                           ELSE Perform(r.e.w, Op(r.e.w, "get_user_balance", r.e.sync,
                                                  NoPhone, 0), ext).w}}})

\* ussd(): the /ussd endpoint.  Nothing it calls outside handle_user_input
\* raises, so its own except clause answers no request.  (The balance set-up
\* for one hard-coded number writes a zero balance over a zero balance.)
Routed(e, sid, phone_number, text, env) ==
    The({IF text = <<>> THEN handle_main_menu(e1, sid)
         ELSE handle_user_input(e1, sid, text_parts, env) :
            e1 \in {get_or_create_session(e, sid, phone_number)},
            text_parts \in {IF text # <<>> THEN SplitStar(text, <<>>) ELSE << <<>> >>}})

ussd(e, sid, phone_number, text, env) ==
    The({Served(r, env.ext) : r \in {Routed(e, sid, phone_number, text, env)}})


(***************************************************************************)
(* Requests to /ussd, one at a time                                        *)
(***************************************************************************)
MaxUssdOps == 3

UssdTexts ==
    { <<>>,
      <<"1">>,
      <<"2">>,
      <<"3">>,
      <<"4">>,
      <<"5">>,
      <<"6">>,
      <<"0">>,
      <<"7">>,
      <<" ">>,
      <<"1", "*", "+", "2", "5", "4", "7", "8", "7", "6", "5", "4", "3", "2", "1">>,
      <<"1", "*", "+", "2", "5", "4", "7", "8", "7", "6", "5", "4", "3", "2", "1", "*", "6", "0">>,
      <<"1", "*", "+", "2", "5", "4", "7", "8", "7", "6", "5", "4", "3", "2", "1", "*", "5">>,
      <<"1", "*", "+", "2", "5", "4", "7", "8", "7", "6", "5", "4", "3", "2", "1", "*", "5", "0", "0", "0">>,
      <<"2", "*", "6", "0">>,
      <<"3", "*", "0", "7", "1", "2", "3", "4", "5", "6", "7", "8">>,
      <<"3", "*", "0", "7", "1", "2", "3", "4", "5", "6", "7", "8", "*", "6", "0">>,
      <<"4", "*", "1", "0">>,
      <<"4", "*", "1", ".", "5">>,
      <<"4", "*", "r", "a", "t", "e", "s">>,
      <<"4", "*", "b", "a", "c", "k">>,
      <<"1", "*", "c", "a", "n", "c", "e", "l">>,
      <<"5", "*", "1", "0", "0">>,
      <<"5", "*", "1", "0", "0", "*", "0", "7", "1", "2", "3", "4", "5", "6", "7", "8">>,
      <<"6", "*", "1", "0">>,
      <<"6", "*", "1", "0", "*", "1">>,
      <<"s", "e", "n", "d">>,
      <<"s", "e", "n", "d", "*", "1", "0">>,
      <<"s", "e", "n", "d", "*", "1", "0", "*", "1">>,
      <<"s", "e", "n", "d", "*", "2">>,
      <<"s", "e", "n", "d", "*", "r", "a", "t", "e", "s">>,
      <<"s", "e", "n", "d", "*", "0", "7", "1", "2", "3", "4", "5", "6", "7", "8">> }

UssdIntents ==
    { Intent("send_bitcoin", W_bob, Amt(60), "sats", NoPhone, ""),
      Intent("send_bitcoin", W_bob, Amt(5), "sats", NoPhone, ""),
      Intent("send_bitcoin", W_bob, Amt(5000), "sats", NoPhone, ""),
      Intent("send_bitcoin", W_bob, Amt(15), "kes", NoPhone, ""),
      Intent("send_bitcoin", W_bob, NoAmount, "sats", NoPhone, ""),
      Intent("send_bitcoin", W_bob, BadAmount, "sats", NoPhone, ""),
      Intent("check_balance", NoPhone, NoAmount, "sats", NoPhone, ""),
      Intent("topup_mpesa", NoPhone, NoAmount, "kes", NoPhone, ""),
      Intent("topup_mpesa", NoPhone, Amt(10), "kes", NoPhone, ""),
      Intent("topup_mpesa", NoPhone, Amt(9), "kes", NoPhone, ""),
      Intent("topup_mpesa", NoPhone, BadAmount, "kes", NoPhone, ""),
      Intent("withdraw_mpesa", NoPhone, NoAmount, "kes", NoPhone, ""),
      Intent("withdraw_mpesa", NoPhone, Amt(100), "kes", NoPhone, ""),
      Intent("withdraw_mpesa", NoPhone, Amt(670), "sats", NoPhone, ""),
      Intent("withdraw_mpesa", NoPhone, BadAmount, "kes", NoPhone, ""),
      Intent("generate_invoice", NoPhone, Amt(60), "sats", NoPhone, ""),
      Intent("generate_invoice", NoPhone, NoAmount, "sats", NoPhone, ""),
      Intent("show_menu", NoPhone, NoAmount, "sats", NoPhone, ""),
      Intent("transaction_history", NoPhone, NoAmount, "sats", NoPhone, ""),
      Intent("help", NoPhone, NoAmount, "sats", NoPhone, ""),
      Intent("buy_airtime", NoPhone, NoAmount, "kes", NoPhone, ""),
      Intent("buy_airtime", NoPhone, Amt(10), "kes", NoPhone, ""),
      Intent("buy_airtime", NoPhone, Amt(10), "kes", LocalA, ""),
      Intent("buy_airtime", NoPhone, BadAmount, "kes", NoPhone, ""),
      Intent("general_response", NoPhone, NoAmount, "sats", NoPhone, "ask"),
      Intent("general_response", NoPhone, NoAmount, "sats", NoPhone, "tell"),
      Intent("general_response", NoPhone, NoAmount, "sats", NoPhone, "none"),
      Intent("error", NoPhone, NoAmount, "sats", NoPhone, "") }

SignalThreads == {"main", "worker"}

\* the language model is called by process_with_ai alone, and only when the
\* session has no ai context
ConsultsModel(e, sid, text) ==
    /\ e.us[sid].state = "main_menu"
    /\ should_use_ai(e, text, sid)
    /\ ~e.ctx[sid].present

\* the gateway is called by the top-up steps alone
CallsGateway(e, sid) ==
    \/ e.us[sid].state = "topup_amount"
    \/ e.ctx[sid].operation = "topup_mpesa" /\ e.ctx[sid].awaiting = "confirmation"

\* what the outside does during one request: the language model's answer,
\* the gateway's, and the thread the request is served on, each of them
\* drawn only where the request can use it
UssdEnvs(e, sid, text) ==
    {[llm |-> l, ext |-> x, sig |-> g] :
        l \in IF ConsultsModel(e, sid, text) THEN UssdIntents
              ELSE {Intent("error", NoPhone, NoAmount, "sats", NoPhone, "")},
        x \in IF CallsGateway(e, sid) THEN {y \in GwOutcomes : y = "ok" => GwFree(e.w) # {}}
              ELSE {"fail"},
        g \in IF e.us[sid].state = "topup_amount" THEN SignalThreads ELSE {"main"}}

\* the text of a request: empty, blank, one digit, or anything else
TextShape(text) ==
    IF text = <<>> THEN "empty"
    ELSE IF Strip(text) = <<>> THEN "blank"
    ELSE IF Len(text) = 1 /\ IsDigit(text) THEN "digit"
    ELSE "other"

\* what is recorded of a request answered with r
Request(sid, text, r) ==
    [sid |-> sid, shape |-> TextShape(text), kind |-> r.kind, key |-> r.key,
     raised |-> r.e.raised, ai |-> r.e.ai, op |-> r.op]

\* one request to the /ussd endpoint of app.py
UssdRequest ==
    /\ opCount < MaxUssdOps
    /\ \E sid \in SessionIds, phone \in Payers, text \in UssdTexts :
          \E env \in UssdEnvs(Engine, sid, text) :
             \E r \in {ussd(Engine, sid, phone, text, env)} :
                 /\ Install(r.e.w)
                 /\ user_sessions' = r.e.us
                 /\ session_context' = r.e.ctx
                 /\ ussdReq' = Request(sid, text, r)
    /\ opCount' = opCount + 1
    /\ UNCHANGED <<thr, dbVars, inflight>>

UssdNext == UssdRequest

UssdSpec == Init /\ [][UssdNext]_vars

(***************************************************************************)
(* Requests to /ussd served by worker threads.  app.py keeps user_sessions *)
(* in a plain dict and takes no lock in ussd(): a thread reads the session *)
(* when the request arrives, runs the handler, and the handler clears or   *)
(* advances the session after the USSDHandlers operation it calls returns. *)
(***************************************************************************)
MaxRaceOps == 4

RaceTexts == {t \in UssdTexts : t # <<>> /\ SplitStar(t, <<>>)[1] = <<"1">>}
\* the language model recognises none of these texts
RaceEnv == [llm |-> Intent("error", NoPhone, NoAmount, "sats", NoPhone, ""), ext |-> "fail",
            sig |-> "main"]
\* the operations of USSDHandlers that run statement by statement
Stepwise == {"send_btc", "withdraw_to_mpesa", "buy_airtime"}

\* a request arrives at thread t: the session is read and the handler runs
\* up to the operation of USSDHandlers it calls
UssdArrive(t) ==
    /\ ~inflight[t].active
    /\ thr[t].pc = "done"
    /\ opCount < MaxRaceOps
    /\ \E sid \in SessionIds, phone \in Payers, text \in RaceTexts :
          \E r \in {Routed(Engine, sid, phone, text, RaceEnv)} :
             IF r.call.op \in Stepwise
             THEN /\ thr' = [thr EXCEPT ![t] = Begin(Call(t, r.call.op, r.call.from,
                                                          r.call.to, r.call.amt))]
                  /\ inflight' = [inflight EXCEPT ![t] =
                        [active |-> TRUE, sid |-> sid, shape |-> TextShape(text),
                         read |-> user_sessions[sid], us |-> r.e.us[sid],
                         ctx |-> r.e.ctx[sid], kind |-> r.kind, key |-> r.key,
                         raised |-> r.e.raised, ai |-> r.e.ai]]
                  /\ UNCHANGED <<ledgerVars, user_sessions, session_context, ussdReq>>
             ELSE \E a \in {Served(r, RaceEnv.ext)} :
                     /\ Install(a.e.w)
                     /\ user_sessions' = [user_sessions EXCEPT ![sid] = a.e.us[sid]]
                     /\ session_context' = [session_context EXCEPT ![sid] = a.e.ctx[sid]]
                     /\ ussdReq' = Request(sid, text, a)
                     /\ UNCHANGED <<thr, inflight>>
    /\ opCount' = opCount + 1
    /\ UNCHANGED dbVars

\* the operation called for the request of thread t has returned: the
\* handler clears or advances the session and the response goes out
UssdReturn(t) ==
    /\ inflight[t].active
    /\ thr[t].pc = "done"
    /\ user_sessions' = [user_sessions EXCEPT ![inflight[t].sid] = inflight[t].us]
    /\ session_context' = [session_context EXCEPT ![inflight[t].sid] = inflight[t].ctx]
    /\ ussdReq' = [sid |-> inflight[t].sid, shape |-> inflight[t].shape,
                   kind |-> inflight[t].kind,
                   key |-> IF thr[t].res = "ok" THEN inflight[t].key ELSE thr[t].msg,
                   raised |-> inflight[t].raised, ai |-> inflight[t].ai, op |-> thr[t].op]
    /\ inflight' = [inflight EXCEPT ![t] = NoRequest]
    /\ thr' = [thr EXCEPT ![t] = IdleFrame]
    /\ UNCHANGED <<ledgerVars, opCount, dbVars>>

RaceNext ==
    \/ \E t \in Threads : UssdArrive(t)
    \/ \E t \in Threads : ThreadStep(t)
    \/ \E t \in Threads : UssdReturn(t)

RaceSpec == Init /\ [][RaceNext]_vars

(***************************************************************************)
(* Ledger properties                                                       *)
(***************************************************************************)
RECURSIVE SumOver(_, _)
SumOver(u, S) ==
    IF S = {} THEN 0
    ELSE LET x == CHOOSE y \in S : TRUE IN u[x] + SumOver(u, S \ {x})

TotalSats(u) == SumOver(u, DOMAIN u)

Last == thr["t1"]

\* C1: a successful send_btc of a from A to a different B lowers A's balance
\* by a, raises B's by exactly a, appends exactly one Transaction, and leaves
\* the sum of all balances unchanged.
C1_SendConservesValue ==
    (Last.op = "send_btc" /\ Last.res = "ok" /\ Last.from # Last.to) =>
        /\ users[Last.from] = get_db_balance(Last.pre, Last.from) - Last.amt
        /\ get_db_balance(users, Last.to) = get_db_balance(Last.pre, Last.to) + Last.amt
        /\ Len(txlog) = Last.preTx + 1
        /\ TotalSats(users) = TotalSats(Last.pre)

\* C2: under every interleaving of concurrent send_btc, withdraw_to_mpesa,
\* buy_airtime and complete_mpesa_topup started from non-negative balances,
\* no stored balance is ever negative.
C2_NoNegativeBalance ==
    /\ \A u \in DOMAIN users : users[u] >= 0
    /\ \A u \in DOMAIN mbal : mbal[u] >= 0

\* two payments overlap and the second debit would go below zero: the
\* account is floored at 0 while that payment is still in progress
C2_Witness ==
    \E t \in Threads :
        /\ thr[t].op = "send_btc" /\ thr[t].pc = "pay_credit" /\ thr[t].peer # 0
        /\ thr[t].pre[thr[t].from] < 2 * thr[t].amt
        /\ users[thr[t].from] = 0

DebitOps == {"send_btc", "withdraw_to_mpesa", "buy_airtime"}
DebitOf(f) == IF f.op = "send_btc" THEN f.amt ELSE f.sats
Overlapped(f, g) == f.seq # 0 /\ g.seq # 0 /\ (f.peer = g.seq \/ g.peer = f.seq)

\* C3: of two concurrent debiting operations on one account whose combined
\* amount exceeds the balance, at most one succeeds.
C3_AtMostOneDebitSucceeds ==
    \A t, u \in Threads :
        LET f == thr[t]
            g == thr[u]
        IN  ( /\ t # u /\ f.pc = "done" /\ g.pc = "done"
              /\ f.op \in DebitOps /\ g.op \in DebitOps
              /\ Overlapped(f, g) /\ f.from = g.from
              /\ f.from \in DOMAIN f.pre /\ f.pre = g.pre
              /\ DebitOf(f) + DebitOf(g) > f.pre[f.from] )
            => ~(f.res = "ok" /\ g.res = "ok")

TopUps == {i \in 1..Len(txlog) : txlog[i].type = "TopUp"}
Settled == {i \in GwIds : gw[i] = "COMPLETE"}
PendingIds == {p.invoice : p \in pending}
PendingIdsOf(S) == {p.invoice : p \in S}

C5_ConcurrentReconcileCreditsOnce ==
    Cardinality(TopUps) <= Cardinality(Settled)

\* C6: confirming a top-up of f KES creates a pending payment holding
\* floor(f * 1000 / 150) sats and leaves the user's balance unchanged; the
\* balance rises only at a later reconciliation that sees COMPLETE.
C6_ConfirmLeavesBalanceUnchanged ==
    \A sid \in SessionIds :
        (exResp.key = "payment initiated" /\ Last.msg = "payment initiated") =>
            /\ users[Last.from] = get_db_balance(Last.pre, Last.from)
            /\ \E p \in pending :
                  /\ p.phone = Last.from
                  /\ p.sats = (exSess[sid].kes.num * RateSats) \div (exSess[sid].kes.den * RateKes)

\* C7: after send_btc_with_logging either the sender was debited and the
\* recipient credited by the same amount, or neither balance changed.
C7_DebitPairedWithCredit ==
    Last.op = "send_btc_with_logging" =>
        \/ users = Last.pre
        \/ /\ users[Last.from] = get_db_balance(Last.pre, Last.from) - Last.amt
           /\ get_db_balance(users, Last.to) = get_db_balance(Last.pre, Last.to) + Last.amt

(***************************************************************************)
(* Properties of the request engine                                        *)
(***************************************************************************)
\* a session as a later request finds it: at the main menu, with empty
\* scratch data and no ai context
StartsAfresh(us, ctx, sid) ==
    /\ us[sid].state = "main_menu"
    /\ us[sid].recipient_phone = <<>>
    /\ us[sid].invoice_recipient = <<>>
    /\ us[sid].withdraw_kes = 0
    /\ us[sid].airtime_kes = 0
    /\ ~ctx[sid].present

MenuDigits == {<<"1">>, <<"2">>, <<"3">>, <<"4">>, <<"5">>, <<"6">>}

\* the texts that carry a menu digit and one further step
CombinedTexts ==
    {t \in UssdTexts : Len(SplitStar(t, <<>>)) = 2 /\ SplitStar(t, <<>>)[1] \in MenuDigits}

\* this step is the request (sid, phone, text) answered under env
Took(sid, phone, text, env) ==
    \E r \in {ussd(Engine, sid, phone, text, env)} :
       /\ user_sessions' = r.e.us
       /\ session_context' = r.e.ctx
       /\ users' = r.e.w.users
       /\ ussdReq' = Request(sid, text, r)

\* the steps of text sent as two requests end as this step did
SeparateRequestsAgree(sid, phone, text) ==
    \E env1 \in UssdEnvs(Engine, sid, SplitStar(text, <<>>)[1]) :
       \E r1 \in {ussd(Engine, sid, phone, SplitStar(text, <<>>)[1], env1)} :
          \E env2 \in UssdEnvs(r1.e, sid, text) :
             \E r2 \in {ussd(r1.e, sid, phone, text, env2)} :
                /\ r2.e.us[sid] = user_sessions'[sid]
                /\ r2.kind = ussdReq'.kind

\* C8: on a fresh session, a request whose text carries a menu digit and a
\* further step ends in the same menu state, with the same scratch data and
\* the same kind of prompt, as the two steps sent in separate requests.
C8_CombinedEqualsSeparate ==
    [][\A sid \in SessionIds, phone \in Payers, text \in CombinedTexts :
          ( /\ ~user_sessions[sid].exists
            /\ ~session_context[sid].present
            /\ \E env \in UssdEnvs(Engine, sid, text) : Took(sid, phone, text, env) )
          => SeparateRequestsAgree(sid, phone, text)]_vars

\* C9: after a response prefixed END nothing of the session remains: a later
\* request with the same id starts at the main menu with empty scratch data
\* and no ai context.
C9_EndClearsSession ==
    ussdReq.kind = "END" => StartsAfresh(user_sessions, session_context, ussdReq.sid)

\* C10: a request in which a handler raised an exception is answered with an
\* END failure message and leaves no menu state, scratch data or ai context.
C10_ExceptionClearsSession ==
    ussdReq.raised =>
        /\ ussdReq.kind = "END"
        /\ StartsAfresh(user_sessions, session_context, ussdReq.sid)

\* this step is a request to /ussd
IsRequest == opCount' = opCount + 1

\* C11 (as stated): a request is handed to the natural-language path exactly
\* when its session has an ai context or its text is not one bare digit.
C11_RoutedByContextOrText ==
    [][(IsRequest /\ ussdReq'.shape \in {"digit", "other"}) =>
          (ussdReq'.ai <=> ( \/ session_context[ussdReq'.sid].present
                             \/ ussdReq'.shape # "digit" ))]_vars

\* C11 (amended): a request is handed to the natural-language path exactly
\* when its text is not blank, its session is at the main menu, and the
\* session has an ai context or the text is not one bare digit; a request in
\* any other menu state goes to that state's handler whatever its text.  With
\* a context awaiting confirmation, the text '1' is handed to that path and
\* never selects menu option 1: the session stays at the main menu.
C11_RoutedAtMainMenu ==
    [][IsRequest =>
          /\ ussdReq'.ai <=>
                ( /\ ussdReq'.shape \in {"digit", "other"}
                  /\ user_sessions[ussdReq'.sid].state = "main_menu"
                  /\ \/ session_context[ussdReq'.sid].present
                     \/ ussdReq'.shape # "digit" )
          /\ ( /\ session_context[ussdReq'.sid].awaiting = "confirmation"
               /\ ussdReq'.shape = "digit" )
             => ( /\ ussdReq'.ai
                  /\ user_sessions'[ussdReq'.sid].state = "main_menu" )]_vars

\* a digit answered a context that awaited confirmation, and the top-up went out
C11_Witness ==
    /\ ussdReq.ai
    /\ ussdReq.shape = "digit"
    /\ ussdReq.op = "topup_via_mpesa"

\* the texts of UssdTexts whose last step asks for information
InformationalTexts == {t \in UssdTexts : t # <<>> /\ _is_informational_request(LastPart(t))}

\* the answers that show the prompt of the pending step again
PendingPrompts ==
    {"rate, pending prompt", "pending prompt", "help, enter amount", "help, enter phone"}

\* C12: while an ai context is active, an informational input is answered
\* with a CON response that shows the pending prompt again, and the ai
\* context, every balance and the pending payments stay as they were.
C12_InformationKeepsContext ==
    [][\A sid \in SessionIds, phone \in Payers, text \in InformationalTexts :
          ( /\ session_context[sid].present
            /\ user_sessions[sid].state = "main_menu"
            /\ \E env \in UssdEnvs(Engine, sid, text) : Took(sid, phone, text, env) )
          => /\ ussdReq'.kind = "CON"
             /\ ussdReq'.key \in PendingPrompts
             /\ session_context' = session_context
             /\ users' = users
             /\ pending' = pending]_vars

\* the texts of UssdTexts whose last step declines a confirmation
DecliningTexts == {t \in UssdTexts : t # <<>> /\ LastPart(t) \in {<<"2">>, W_no, W_n, W_cancel}}

\* the session was shown the top-up amount and asked to confirm it
AwaitsTopupConfirmation(sid) ==
    /\ session_context[sid].present
    /\ session_context[sid].operation = "topup_mpesa"
    /\ session_context[sid].awaiting = "confirmation"

\* C13: a request calls topup_via_mpesa (the STK push) only as the answer to
\* a confirmation prompt that showed the amount earlier in the session, and
\* declining the prompt ends the flow with no call and no pending payment.
C13_TopupNeedsConfirmation ==
    [][/\ (IsRequest /\ ussdReq'.op = "topup_via_mpesa")
            => AwaitsTopupConfirmation(ussdReq'.sid)
       /\ \A sid \in SessionIds, phone \in Payers, text \in DecliningTexts :
             ( /\ AwaitsTopupConfirmation(sid)
               /\ user_sessions[sid].state = "main_menu"
               /\ \E env \in UssdEnvs(Engine, sid, text) : Took(sid, phone, text, env) )
             => /\ ussdReq'.kind = "END"
                /\ ussdReq'.op = "none"
                /\ pending' = pending
                /\ ~session_context'[sid].present]_vars

\* C14: two requests for one session id are never in progress against the
\* same session state: no two threads have read the same state of a session
\* and both gone on to the operation of USSDHandlers that this state calls.
C14_OneRequestPerSession ==
    \A t1, t2 \in Threads :
       (t1 # t2 /\ inflight[t1].active /\ inflight[t2].active)
       => ~( /\ inflight[t1].sid = inflight[t2].sid
             /\ inflight[t1].read = inflight[t2].read )

\* ---------------------------------------------------------------------
\* TransactionManager under concurrent callers (transaction_helpers.py).
\* Each call runs in one database transaction: SELECT ... FOR UPDATE takes
\* the row lock and reads the row, the check and the in-memory debit follow,
\* and commit writes the new balance and the Transaction and releases the
\* lock.  A caller that finds the row locked waits, or gives up with a
\* lock-wait timeout (an SQLAlchemyError, answered with None).

MaxLockOps == 3

LockAmounts == {60, 100}

LockCallers == {PhoneA, PhoneB}

holds_row_lock(f) == f.pc \in {"db_check", "db_commit"}

no_row_lock(t, phone_number) == TRUE

with_for_update(t, phone_number) ==
    \A u \in Threads \ {t} : ~(holds_row_lock(thr[u]) /\ thr[u].from = phone_number)

TransactionType(f) == IF f.op = "log_send_transaction" THEN "send" ELSE "withdraw"

log_transaction_step(d, f) ==
    CASE f.pc = "db_lock" ->
            IF f.from \notin DOMAIN d.users THEN [d |-> d, f |-> Return(f, "none", "")]
            ELSE [d |-> d, f |-> [f EXCEPT !.pc = "db_check", !.bal = d.users[f.from]]]
      [] f.pc = "db_check" ->
            IF f.bal < f.amt THEN [d |-> d, f |-> Return(f, "raise", "Insufficient balance")]
            ELSE [d |-> d, f |-> [f EXCEPT !.pc = "db_commit", !.bal = f.bal - f.amt]]
      [] OTHER ->
            [d |-> [d EXCEPT !.users[f.from] = f.bal,
                             !.dbtx = Append(@, [user |-> f.from, type |-> TransactionType(f),
                                                 amount |-> f.amt, status |-> "pending",
                                                 recipient |-> f.to])],
             f |-> Return(f, "tx", "")]

LogCall(t, op, to) ==
    /\ ~Busy(t)
    /\ opCount < MaxLockOps
    /\ \E phone \in LockCallers, amount_sats \in LockAmounts :
          thr' = [thr EXCEPT ![t] = [Call(t, op, phone, to, amount_sats) EXCEPT !.pc = "db_lock"]]
    /\ opCount' = opCount + 1
    /\ UNCHANGED <<ledgerVars, dbVars, engineVars>>

LogSendCall(t) == LogCall(t, "log_send_transaction", PhoneB)

LogWithdrawCall(t) == LogCall(t, "log_withdraw_transaction", NoPhone)

LogStep(t) ==
    /\ thr[t].pc \in {"db_lock", "db_check", "db_commit"}
    /\ thr[t].pc = "db_lock" => with_for_update(t, thr[t].from)
    /\ \E r \in {log_transaction_step(Db, thr[t])} :
          /\ DbInstall(r.d)
          /\ thr' = [thr EXCEPT ![t] = r.f]
    /\ UNCHANGED <<opCount, exResp>>

LogTimeout(t) ==
    /\ thr[t].pc = "db_lock"
    /\ ~with_for_update(t, thr[t].from)
    /\ thr' = [thr EXCEPT ![t] = Return(thr[t], "none", "")]
    /\ UNCHANGED <<ledgerVars, dbVars, engineVars, opCount>>

LockNext ==
    \E t \in Threads :
        \/ LogSendCall(t)
        \/ LogWithdrawCall(t)
        \/ LogStep(t)
        \/ LogTimeout(t)

LockSpec == Init /\ [][LockNext]_vars

RECURSIVE Debited(_, _)
Debited(txs, phone) ==
    IF txs = <<>> THEN 0
    ELSE (IF Head(txs).user = phone THEN Head(txs).amount ELSE 0) + Debited(Tail(txs), phone)

Successes == {t \in Threads : thr[t].res = "tx"}

\* C15: log_send_transaction and log_withdraw_transaction check and debit under
\* the row lock, so for every interleaving of concurrent calls on one account
\* the amounts of the successful calls never sum to more than the starting
\* balance, the balance never goes negative, and the Transactions recorded are
\* exactly one per success (the balance is the starting balance less the
\* recorded amounts, and a returned Transaction is in the table).
C15_DebitsNeverExceedBalance ==
    /\ \A phone \in DOMAIN users :
          /\ users[phone] >= 0
          /\ Debited(dbtx, phone) <= mbal[phone]
          /\ users[phone] = mbal[phone] - Debited(dbtx, phone)
    /\ \A t \in Successes :
          \E i \in 1..Len(dbtx) :
              dbtx[i] = [user |-> thr[t].from, type |-> TransactionType(thr[t]),
                         amount |-> thr[t].amt, status |-> "pending", recipient |-> thr[t].to]
    /\ Len(dbtx) <= opCount

C15_Witness ==
    /\ Len(dbtx) = 1
    /\ \E t \in Threads :
          /\ thr[t].res = "raise"
          /\ thr[t].peer # 0
          /\ \E u \in Successes : thr[u].seq = thr[t].peer /\ thr[u].from = thr[t].from

SendCalled == thr'["t1"].op = "send_btc" /\ opCount' = opCount + 1

\* C16: a send whose amount exceeds the sender's balance is rejected: every
\* balance, the invoices, the payments and both transaction logs are left as
\* they were (balance 1000, send 50000 leaves 1000).  The balance of an account
\* is the database balance, which get_user_balance returns; the Balance atom
\* mirrors it, and the read of the rejected send may only bring a stale atom
\* up to the unchanged database balance.
C16_OverdrawnSendRejected ==
    [][(SendCalled /\ thr'["t1"].amt > get_db_balance(users, thr'["t1"].from)) =>
          /\ thr'["t1"].res = "fail"
          /\ users' = users
          /\ DOMAIN mbal' = DOMAIN mbal
          /\ \A p \in DOMAIN mbal : mbal'[p] \in {mbal[p], get_db_balance(users, p)}
          /\ invoices' = invoices
          /\ payments' = payments
          /\ txlog' = txlog
          /\ dbtx' = dbtx]_vars

C16_Witness ==
    /\ Last.op = "send_btc"
    /\ Last.amt = 50000
    /\ Last.from = PhoneA
    /\ Last.pre = (PhoneA :> 1000)
    /\ Last.msg = "Insufficient balance"
    /\ users = (PhoneA :> 1000)

WithdrawCalled == thr'["t1"].op = "withdraw_to_mpesa" /\ opCount' = opCount + 1

\* C17: a withdrawal of f KES, f >= 100, succeeds exactly when the balance is
\* at least floor(f * 1000 / 150) sats; a success lowers the balance by exactly
\* that amount and appends one Withdraw Transaction, so a balance equal to the
\* amount is withdrawn in full and 0 is left.
C17_WithdrawExact ==
    [][(WithdrawCalled /\ thr'["t1"].amt >= 100) =>
          LET f == thr'["t1"]
              need == (f.amt * 1000) \div 150
              bal == get_db_balance(users, f.from)
          IN  /\ f.res = "ok" <=> bal >= need
              /\ f.res = "ok" =>
                    /\ users' = [users EXCEPT ![f.from] = bal - need]
                    /\ txlog' = Append(txlog, [from |-> f.from, to |-> MPesa,
                                               amount |-> need, type |-> "Withdraw"])
              /\ (f.res = "ok" /\ bal = need) => users'[f.from] = 0]_vars

C17_Witness ==
    /\ Last.op = "withdraw_to_mpesa"
    /\ Last.res = "ok"
    /\ Last.amt = 150
    /\ Last.pre = (PhoneA :> 1000)
    /\ users[PhoneA] = 0
    /\ Len(txlog) = Last.preTx + 1

\* texts whose last part is an amount outside 10..1,000,000
OutOfRangeTexts ==
    {t \in UssdTexts : t # <<>> /\ ParseInt(LastPart(t)).ok
                       /\ (ParseInt(LastPart(t)).val < 10 \/ ParseInt(LastPart(t)).val > 1000000)}

\* C18: in the Send flow an amount below 10 sats or above 1,000,000 sats is
\* answered with a prompt, before any call of the ledger or of the payment
\* provider, and every balance is left as it was.
C18_SendAmountFloor ==
    [][\A sid \in SessionIds, phone \in Payers, text \in OutOfRangeTexts :
          ( /\ user_sessions[sid].state = "send_btc_amount"
            /\ \E env \in UssdEnvs(Engine, sid, text) : Took(sid, phone, text, env) )
          => /\ ussdReq'.op = "none"
             /\ ussdReq'.kind = "CON"
             /\ users' = users
             /\ mbal' = mbal
             /\ invoices' = invoices
             /\ txlog' = txlog]_vars

CompleteCalled == thr'["t1"].op = "complete_mpesa_topup" /\ opCount' = opCount + 1

\* the status check came back with the gateway's report
StatusReported ==
    thr'["t1"].msg \notin {"Error verifying payment", "Unable to verify payment status"}

\* C19: complete_mpesa_topup for an invoice the gateway reports FAILED or
\* CANCELLED reports failure, credits nothing and deletes the pending record
\* of the invoice; for an invoice still pending it reports failure and leaves
\* the balances, the pending records and the transaction log as they were.
C19_FailedTopupDropsPending ==
    [][(CompleteCalled /\ StatusReported) =>
          LET invoice_id == thr'["t1"].amt
          IN  /\ gw[invoice_id] \in {"FAILED", "CANCELLED"} =>
                    /\ thr'["t1"].res = "fail"
                    /\ users' = users
                    /\ txlog' = txlog
                    /\ {p \in pending' : p.invoice = invoice_id} = {}
              /\ gw[invoice_id] = "PENDING" =>
                    /\ thr'["t1"].res = "fail"
                    /\ users' = users
                    /\ txlog' = txlog
                    /\ pending' = pending]_vars

\* texts whose last part is an amount that validate_amount accepts
AmountTexts ==
    {t \in UssdTexts : t # <<>> /\ ParseInt(LastPart(t)).ok
                       /\ validate_amount(ParseInt(LastPart(t)).val) = "ok"}

\* C20: in the Send flow an amount above the sender's balance is answered with
\* a CON prompt for the amount; the session stays at the amount step and keeps
\* the recipient, so that the next input is read as an amount.
C20_InsufficientFundsReprompts ==
    [][\A sid \in SessionIds, phone \in Payers, text \in AmountTexts :
          ( /\ user_sessions[sid].state = "send_btc_amount"
            /\ ParseInt(LastPart(text)).val > get_db_balance(users, user_sessions[sid].phone_number)
            /\ \E env \in UssdEnvs(Engine, sid, text) : Took(sid, phone, text, env) )
          => /\ ussdReq'.kind = "CON"
             /\ user_sessions'[sid].state = "send_btc_amount"
             /\ user_sessions'[sid].recipient_phone = user_sessions[sid].recipient_phone
             /\ users' = users]_vars

\* texts whose last part is 'back' or 'cancel'
BackTexts == {t \in UssdTexts : t # <<>> /\ Lower(LastPart(t)) \in {W_back, W_cancel}}

\* the step before `state` in its flow
PreviousState(state) ==
    CASE state = "send_btc_amount" -> "send_btc_phone"
      [] state = "send_invoice_amount" -> "send_invoice_phone"
      [] state = "withdraw_phone" -> "withdraw_amount"
      [] state = "airtime_phone" -> "airtime_amount"
      [] OTHER -> "main_menu"

InvalidInputKeys ==
    {"invalid amount, enter kes", "invalid amount, enter sats", "invalid phone, enter recipient",
     "invalid phone, enter mpesa phone", "invalid phone, enter airtime phone",
     "Error processing request"}

\* C21: at every prompt of a flow (a session past the main menu) the inputs
\* 'back' and 'cancel' lead to the previous step of the flow or to the main
\* menu; they are never answered with an invalid-input or error prompt and
\* never call the ledger or the payment provider.
C21_BackAndCancelGoBack ==
    [][\A sid \in SessionIds, phone \in Payers, text \in BackTexts :
          ( /\ user_sessions[sid].exists
            /\ user_sessions[sid].state # "main_menu"
            /\ \E env \in UssdEnvs(Engine, sid, text) : Took(sid, phone, text, env) )
          => /\ ussdReq'.op = "none"
             /\ ~ussdReq'.raised
             /\ ussdReq'.key \notin InvalidInputKeys
             /\ user_sessions'[sid].state \in {PreviousState(user_sessions[sid].state), "main_menu"}]_vars

PhoneSteps == {"send_btc_phone", "send_invoice_phone", "withdraw_phone", "airtime_phone"}

SatsSteps == {"send_btc_amount", "receive_btc_amount", "send_invoice_amount"}

\* `input` is refused at the step `state` for its format or for a limit: a
\* phone number that does not validate, an amount that is not a number, or
\* one under the floor or over the ceiling of the step. The top-up step
\* keeps only the digits of its input before it reads the number
\* (app.py handle_topup_amount), so it refuses an input without digits or
\* one whose digits read under the floor
RejectedInput(state, input) ==
    LET a == ParseInt(input)
        cleaned_input == FilterDigits(Strip(input))
    IN  /\ Lower(input) \notin {W_back, W_cancel, W_rates, W_ratesq}
        /\ CASE state = "airtime_phone" /\ input \in {<<"1">>, <<"2">>} -> FALSE
             [] state \in PhoneSteps -> ~validate_phone_number(normalize_phone_number(input))
             [] state \in SatsSteps -> ~a.ok \/ a.val < 1 \/ a.val > 1000000
             [] state = "topup_amount" ->
                    cleaned_input = <<>> \/ DigitsValue(cleaned_input, 0) < 10
             [] state = "withdraw_amount" -> ~a.ok \/ a.val < 100
             [] state = "airtime_amount" -> ~a.ok \/ a.val < 10 \/ a.val > 1000
             [] OTHER -> FALSE

\* the same for an input that answers the question a conversation context
\* is waiting for
RejectedInContext(c, input) ==
    LET a == ParseInt(input)
    IN  /\ Lower(input) \notin {W_back, W_cancel}
        /\ ~_is_informational_request(input)
        /\ CASE c.awaiting = "phone_number" ->
                    ~validate_phone_number(normalize_phone_number(input))
             [] c.awaiting = "amount" /\ c.operation = "topup_mpesa" -> ~a.ok \/ a.val < 10
             [] c.awaiting = "amount" /\ c.operation = "withdraw_mpesa" -> ~a.ok \/ a.val < 100
             [] c.awaiting = "amount" /\ c.operation = "buy_airtime" ->
                    ~a.ok \/ a.val < 10 \/ a.val > 1000
             [] OTHER -> FALSE

RejectedAt(sid, input) ==
    IF user_sessions[sid].state # "main_menu"
    THEN RejectedInput(user_sessions[sid].state, input)
    ELSE session_context[sid].present /\ RejectedInContext(session_context[sid], input)

\* C22: when a step of a flow in progress refuses its input for its format or
\* for a limit, the answer is a CON prompt and the step, the data kept for the
\* flow, the context of the conversation, every balance and the pending
\* payments are left as they were.
C22_RejectionKeepsStep ==
    [][\A sid \in SessionIds, phone \in Payers, text \in UssdTexts \ {<<>>} :
          ( /\ user_sessions[sid].exists
            /\ RejectedAt(sid, LastPart(text))
            /\ \E env \in UssdEnvs(Engine, sid, text) : Took(sid, phone, text, env) )
          => /\ ussdReq'.kind = "CON"
             /\ user_sessions'[sid] = user_sessions[sid]
             /\ session_context'[sid] = session_context[sid]
             /\ users' = users
             /\ mbal' = mbal
             /\ pending' = pending]_vars

C22_Witness ==
    /\ ussdReq.key = "invalid phone, enter recipient"
    /\ user_sessions["s1"].state = "send_btc_phone"
    /\ opCount >= 2

\* answers whose text is built from the exception that was caught
ExceptionDetailKeys == {"DEBUG ERROR"}

\* C23: no answer of a request carries the detail of an exception: when an
\* operation (topup_via_mpesa included) catches an unexpected exception the
\* user is shown a fixed failure message.
C23_NoExceptionDetail == ussdReq.key \notin ExceptionDetailKeys

\* the carrier top-up of the purchase in frame f has been called
CarrierCalled(f) == f.op = "buy_airtime" /\ (f.pc = "airtime_debit" \/ f.res = "ok")

\* the debit of the purchase in frame f has been applied and recorded
AirtimeDebited(f) ==
    \E i \in (f.preTx + 1)..Len(txlog) :
        txlog[i] = [from |-> f.from, to |-> AirtimeTo, amount |-> f.sats, type |-> "Airtime"]

\* C24: buy_airtime checks the balance, debits the ledger, calls the carrier
\* and then answers, in this order: the carrier top-up is never called for a
\* purchase whose balance check failed or whose debit is not yet applied.
C24_DebitBeforeCarrier ==
    \A t \in Threads : CarrierCalled(thr[t]) => AirtimeDebited(thr[t])

\* ---------------------------------------------------------------------
\* Helpers called on their own: the arithmetic of the conversions and the
\* phone-number helpers, each call in a frame of thread t1.
\*
\* Python computes int(amount * (1000 / 150)) in IEEE-754 doubles: the
\* quotient is rounded to 53 significant bits, the product is rounded to
\* 53 significant bits, and int() truncates.  A double is kept here as its
\* significand, least significant bit first, and the number of its bits
\* that are fractional.

SignificandBits == 53

RECURSIVE ToBits(_)
ToBits(n) == IF n = 0 THEN <<>> ELSE <<n % 2>> \o ToBits(n \div 2)

RECURSIVE FromBits(_)
FromBits(bits) == IF bits = <<>> THEN 0 ELSE Head(bits) + 2 * FromBits(Tail(bits))

RECURSIVE IncBits(_)
IncBits(bits) ==
    IF bits = <<>> THEN <<1>>
    ELSE IF Head(bits) = 0 THEN <<1>> \o Tail(bits)
    ELSE <<0>> \o IncBits(Tail(bits))

\* the quotient r / den continued bit by bit until the significand is full;
\* `acc` holds the bits so far, `frac` how many of them are fractional
RECURSIVE DivBits(_, _, _, _)
DivBits(r, den, acc, frac) ==
    IF Len(acc) = SignificandBits
    THEN LET guard == (2 * r) \div den
             rest == (2 * r) % den
             up == guard = 1 /\ (rest # 0 \/ acc[1] = 1)
         IN  [bits |-> IF up THEN IncBits(acc) ELSE acc, scale |-> frac]
    ELSE LET b == (2 * r) \div den
         IN  DivBits((2 * r) % den, den,
                     IF acc = <<>> /\ b = 0 THEN <<>> ELSE <<b>> \o acc, frac + 1)

\* the double num / den of two small positive integers
FloatDiv(num, den) == DivBits(num % den, den, ToBits(num \div den), 0)

RECURSIVE MulBits(_, _, _)
MulBits(bits, f, carry) ==
    IF bits = <<>> THEN ToBits(carry)
    ELSE LET v == Head(bits) * f + carry
         IN  <<v % 2>> \o MulBits(Tail(bits), f, v \div 2)

\* the exact product rounded to the nearest double, ties to even: `drop` low
\* bits are rounded away
RoundBits(bits) ==
    LET n == Len(bits)
        drop == n - SignificandBits
    IN  IF drop <= 0 THEN [bits |-> bits, drop |-> 0]
        ELSE LET kept == SubSeq(bits, drop + 1, n)
                 up == /\ bits[drop] = 1
                       /\ (kept[1] = 1 \/ \E i \in 1..(drop - 1) : bits[i] = 1)
             IN  [bits |-> IF up THEN IncBits(kept) ELSE kept, drop |-> drop]

\* round(amount * x): to the nearest whole number instead of truncating
RoundOfProduct(amount, x) ==
    IF amount = 0 THEN 0
    ELSE LET p == RoundBits(MulBits(x.bits, amount, 0))
             cut == x.scale - p.drop
         IN  IF cut > Len(p.bits) THEN 0
             ELSE FromBits(SubSeq(p.bits, cut + 1, Len(p.bits)))
                  + (IF cut >= 1 /\ p.bits[cut] = 1 THEN 1 ELSE 0)

\* int(amount * x) for a whole amount >= 0 and a double x
IntOfProduct(amount, x) ==
    IF amount = 0 THEN 0
    ELSE LET p == RoundBits(MulBits(x.bits, amount, 0))
             cut == x.scale - p.drop
         IN  IF cut >= Len(p.bits) THEN 0
             ELSE FromBits(SubSeq(p.bits, cut + 1, Len(p.bits)))

\* USSDNaturalLanguageProcessor.convert_amount
convert_amount(amount, from_currency, to_currency) ==
    IF from_currency \in {"kes", "shillings"} /\ to_currency \in {"sats", "satoshis"}
    THEN IntOfProduct(amount, FloatDiv(RateSats, RateKes))
    ELSE IF from_currency \in {"sats", "satoshis"} /\ to_currency \in {"kes", "shillings"}
    THEN IntOfProduct(amount, FloatDiv(RateKes, RateSats))
    ELSE amount

MaxConvert == 1200

\* amounts beyond the range, up to the ceiling of a send
LargeAmounts == {6667, 99999, 100000, 150000, 999999, 1000000}

PhonePrefixes ==
    { <<>>, <<"0">>, <<"2", "5", "4">>, <<"+", "2", "5", "4">>, <<"+">>, <<" ", "0">>,
      <<"+", "2", "5", "5">>, <<"0", "2", "5", "4">> }

PhoneBodies ==
    { <<"7", "1", "2", "3", "4", "5", "6", "7", "8">>,
      <<"7", "1", "2", "3", "4", "5", "6", "7">>,
      <<"7", "1", "2", "3", "4", "5", "6", "7", "8", "9">>,
      <<"7", "1", "2", "3", "4", "5", "6", "7", "a">>,
      <<"7", "1", "2", " ", "4", "5", "6", "7", "8">>,
      <<"1", "2", "3", "4", "5", "6">>,
      <<>> }

PhoneInputs == {p \o b \o s : p \in PhonePrefixes, b \in PhoneBodies, s \in {<<>>, <<" ">>}}

\* convert_amount(amount, 'kes', 'sats'), convert_amount(amount, 'sats', 'kes')
\* and the conversion of the first result back to KES
ConvertCall ==
    /\ ~Busy("t1") /\ thr["t1"].op = "idle"
    /\ \E amount \in (0..MaxConvert) \cup LargeAmounts :
          \E sats \in {convert_amount(amount, "kes", "sats")} :
             thr' = [thr EXCEPT !["t1"] =
                        [IdleFrame EXCEPT !.op = "convert_amount", !.amt = amount,
                                          !.sats = sats,
                                          !.val = convert_amount(amount, "sats", "kes"),
                                          !.bal = convert_amount(sats, "sats", "kes"),
                                          !.res = "ok"]]
    /\ UNCHANGED <<ledgerVars, dbVars, engineVars, opCount>>

\* normalize_phone_number(x), and normalize_phone_number of the result
NormalizeCall ==
    /\ ~Busy("t1") /\ thr["t1"].op = "idle"
    /\ \E x \in PhoneInputs :
          \E y \in {normalize_phone_number(x)} :
             thr' = [thr EXCEPT !["t1"] =
                        [IdleFrame EXCEPT !.op = "normalize_phone_number", !.from = x,
                                          !.to = y, !.gphone = normalize_phone_number(y),
                                          !.res = "ok"]]
    /\ UNCHANGED <<ledgerVars, dbVars, engineVars, opCount>>

ValidateCall ==
    /\ ~Busy("t1") /\ thr["t1"].op = "idle"
    /\ \E x \in PhoneInputs :
          thr' = [thr EXCEPT !["t1"] =
                     [IdleFrame EXCEPT !.op = "validate_phone_number", !.from = x,
                                       !.res = IF validate_phone_number(x) THEN "ok"
                                               ELSE "fail"]]
    /\ UNCHANGED <<ledgerVars, dbVars, engineVars, opCount>>

HelperNext ==
    \/ ConvertCall
    \/ NormalizeCall
    \/ ValidateCall

HelperSpec == Init /\ [][HelperNext]_vars

\* C25: for every whole amount f of the flows the conversion of f KES to sats
\* is floor(f * 1000 / 150), the conversion of f sats to KES is
\* floor(f * 150 / 1000), and f KES converted to sats and back is at most f.
C25_ConversionsFloor ==
    Last.op = "convert_amount" =>
        /\ Last.sats = (Last.amt * 1000) \div 150
        /\ Last.val = (Last.amt * 150) \div 1000
        /\ Last.bal <= Last.amt

C25_Witness ==
    /\ Last.op = "convert_amount"
    /\ Last.amt = 100
    /\ Last.sats = 666
    /\ Last.val = 15
    /\ Last.bal = 99

\* C26: normalize_phone_number returns a string for every string (it does not
\* raise) and is idempotent: normalising its result returns the result.
C26_NormalizeIdempotent ==
    Last.op = "normalize_phone_number" =>
        /\ Last.res = "ok"
        /\ Last.gphone = Last.to

C26_Witness ==
    /\ Last.op = "normalize_phone_number"
    /\ Last.from = <<" ", "0", "7", "1", "2", "3", "4", "5", "6", "7", "8", " ">>
    /\ Last.to = PhoneA
    /\ Last.gphone = PhoneA

\* '+254' followed by exactly 9 digits
IsInternational(p) == StartsWith(p, Plus254) /\ Len(p) = 13 /\ IsDigit(SubSeq(p, 5, 13))

\* p is none of the forms normalize_phone_number knows
MatchesNoForm(p) ==
    /\ ~(StartsWith(p, <<"0">>) /\ Len(p) = 10)
    /\ ~(StartsWith(p, S254) /\ Len(p) = 12)
    /\ ~StartsWith(p, Plus254)

\* C27: validate_phone_number(p) is true exactly when p is '+254' followed by
\* exactly 9 digits, and an input that is none of the forms
\* normalize_phone_number knows (and so is returned as it is) fails validation.
C27_ValidateExact ==
    Last.op = "validate_phone_number" =>
        /\ Last.res = "ok" <=> IsInternational(Last.from)
        /\ (MatchesNoForm(Last.from) /\ normalize_phone_number(Last.from) = Last.from)
              => Last.res = "fail"

BalanceCalled == thr'["t1"].op = "get_user_balance" /\ opCount' = opCount + 1

\* C28: get_user_balance for a phone number that has no user record returns 0
\* and creates the user with balance 0: the user exists after the read.
C28_BalanceReadCreatesUser ==
    [][(BalanceCalled /\ thr'["t1"].from \notin DOMAIN users) =>
          /\ thr'["t1"].val = 0
          /\ thr'["t1"].from \in DOMAIN users'
          /\ get_db_balance(users', thr'["t1"].from) = 0]_vars

\* C29: a successful send from A to B changes no balance other than A's and
\* B's, whatever invoices of other users, of the same or of another amount,
\* the payment provider holds at that time.
C29_SendTouchesOnlyParties ==
    [][(SendCalled /\ thr'["t1"].res = "ok" /\ thr'["t1"].from # thr'["t1"].to) =>
          \A p \in (DOMAIN users \cup DOMAIN users') \ {thr'["t1"].from, thr'["t1"].to} :
              /\ p \in DOMAIN users <=> p \in DOMAIN users'
              /\ get_db_balance(users', p) = get_db_balance(users, p)]_vars

\* C30: after any earlier sends and invoices, a send_btc with a valid sender
\* and recipient, an amount within 1..1,000,000 sats and a sender balance of at
\* least the amount succeeds; so does a second send of an amount sent before.
C30_FundedSendSucceeds ==
    [][( /\ SendCalled
         /\ validate_phone_number(thr'["t1"].from)
         /\ validate_phone_number(thr'["t1"].to)
         /\ thr'["t1"].amt \in 1..1000000
         /\ get_db_balance(users, thr'["t1"].from) >= thr'["t1"].amt )
          => thr'["t1"].res = "ok"]_vars

\* texts whose last part is neither a whole number nor a word the amount
\* steps know
MalformedAmountTexts ==
    {t \in UssdTexts : /\ t # <<>>
                       /\ ~IsDigit(LastPart(t))
                       /\ Lower(LastPart(t)) \notin {W_back, W_cancel, W_rates, W_ratesq}}

\* C31: at the top-up amount step an input that is not a well-formed whole
\* number is answered with the prompt for the amount: the session stays at the
\* step, no operation is called and no collection is initiated.
C31_MalformedTopupRejected ==
    [][\A sid \in SessionIds, phone \in Payers, text \in MalformedAmountTexts :
          ( /\ user_sessions[sid].state = "topup_amount"
            /\ \E env \in UssdEnvs(Engine, sid, text) : Took(sid, phone, text, env) )
          => /\ ussdReq'.kind = "CON"
             /\ ussdReq'.op = "none"
             /\ user_sessions'[sid].state = "topup_amount"
             /\ pending' = pending]_vars

\* complete_mpesa_topup returned, called directly or by the webhook
ReconcileCalled ==
    /\ thr'["t1"].op \in {"complete_mpesa_topup", "intersend_webhook"}
    /\ opCount' = opCount + 1

\* C32: a reconciliation credits a balance only if the gateway reports the
\* invoice COMPLETE and a pending record of that invoice exists; a webhook
\* payload for an invoice the gateway does not report COMPLETE, or for an
\* invoice id the gateway never issued, changes no balance, no pending record
\* and no transaction log, whatever state the payload claims.
C32_CreditNeedsGatewayComplete ==
    [][ReconcileCalled =>
          LET invoice_id == thr'["t1"].amt
              complete == invoice_id \in DOMAIN gw /\ gw[invoice_id] = "COMPLETE"
          IN  (complete /\ invoice_id \in PendingIds)
              \/ (users' = users /\ mbal' = mbal /\ txlog' = txlog /\ pending' = pending)]_vars

\* a webhook payload claimed COMPLETE for an invoice still pending at the
\* gateway, and nothing was credited
C32_Witness ==
    /\ Last.op = "intersend_webhook"
    /\ Last.msg = "Payment still pending. Please wait and try again."
    /\ Last.amt \in PendingIds
    /\ gw[Last.amt] = "PENDING"
    /\ users = Last.pre

\* C33: a session with an active ai context is at the main menu of the digit
\* state machine: the two are never both in the middle of a flow.
C33_ContextOnlyAtMainMenu ==
    \A sid \in SessionIds :
        session_context[sid].present => user_sessions[sid].state = "main_menu"

\* a digit arrived while the context awaited a field, was read by the
\* language layer, and the context is still awaiting
C33_Witness ==
    /\ ussdReq.shape = "digit"
    /\ ussdReq.ai
    /\ session_context["s1"].present
    /\ session_context["s1"].awaiting # ""
    /\ opCount >= 2

\* the CON answers that ask for a recipient or a phone, for an amount, or for
\* a confirmation
FieldPromptKeys ==
    {"enter recipient", "invalid phone, enter recipient",
     "enter mpesa phone", "invalid phone, enter mpesa phone",
     "enter airtime phone", "invalid phone, enter airtime phone", "airtime for whom",
     "enter sats", "invalid amount, enter sats", "insufficient balance, enter sats",
     "minimum send, enter sats", "maximum send, enter sats",
     "enter kes", "invalid amount, enter kes", "insufficient balance, enter kes",
     "minimum top-up, enter kes", "minimum withdrawal, enter kes",
     "minimum airtime, enter kes", "maximum airtime, enter kes",
     "confirm send", "confirm top-up"}

\* the session of the request is in the middle of a flow
AwaitsField(sid) ==
    \/ user_sessions[sid].state # "main_menu"
    \/ session_context[sid].present /\ session_context[sid].awaiting # ""

\* C34: after a CON response that asks for a recipient, an amount or a
\* confirmation, the session of the request holds a menu state other than the
\* main menu, or an ai context that awaits a field.
C34_PromptBackedByState ==
    (ussdReq.kind = "CON" /\ ussdReq.key \in FieldPromptKeys) => AwaitsField(ussdReq.sid)

\* the texts whose first step is menu digit 5 or 6
WithdrawAirtimeTexts ==
    {t \in UssdTexts : t # <<>> /\ SplitStar(t, <<>>)[1] \in {<<"5">>, <<"6">>}}

\* the flow the menu text gives to a digit: 5. Withdraw M-Pesa, 6. Buy Airtime
InFlowOf(digit, state, operation, op) ==
    IF digit = <<"5">>
    THEN \/ state \in {"withdraw_amount", "withdraw_phone"}
         \/ operation = "withdraw_mpesa"
         \/ op = "withdraw_to_mpesa"
    ELSE \/ state \in {"airtime_amount", "airtime_phone"}
         \/ operation = "buy_airtime"
         \/ op = "buy_airtime"

\* C35: on a session at the main menu, a text whose first step is 5 enters the
\* Withdraw flow and one whose first step is 6 enters the Buy Airtime flow,
\* whether the digit arrives alone or followed by further steps: the request
\* leaves the session in a state of that flow, or with an ai context of that
\* operation, or has called that operation.
C35_DigitSelectsSameFlow ==
    [][\A sid \in SessionIds, phone \in Payers, text \in WithdrawAirtimeTexts :
          ( /\ user_sessions[sid].state = "main_menu"
            /\ ~session_context[sid].present
            /\ \E env \in UssdEnvs(Engine, sid, text) : Took(sid, phone, text, env) )
          => InFlowOf(SplitStar(text, <<>>)[1], user_sessions'[sid].state,
                      session_context'[sid].operation, ussdReq'.op)]_vars

\* C36: whenever a session is at the send amount step its scratch data holds a
\* recipient phone that passes validation, at the withdraw phone step a
\* withdraw_kes of at least 100, and at the airtime phone step an airtime_kes
\* within 10..1000, for every sequence of requests.
C36_StepHoldsItsData ==
    \A sid \in SessionIds :
        LET s == user_sessions[sid]
        IN  /\ s.state = "send_btc_amount" => validate_phone_number(s.recipient_phone)
            /\ s.state = "withdraw_phone" => s.withdraw_kes >= MinWithdrawKes
            /\ s.state = "airtime_phone" =>
                  s.airtime_kes >= MinAirtimeKes /\ s.airtime_kes <= MaxAirtimeKes

\* an amount was rejected at the send amount step, and the recipient is
\* still held
C36_Witness ==
    /\ user_sessions["s1"].state = "send_btc_amount"
    /\ user_sessions["s1"].recipient_phone = PhoneB
    /\ ussdReq.key = "invalid amount, enter sats"
    /\ opCount >= 2

\* ---------------------------------------------------------------------
\* InvoiceManager under concurrent callers (invoice_helpers.py).  Each call
\* runs in one database transaction.  mark_invoice_paid reads the invoice
\* with SELECT ... FOR UPDATE and holds the row lock until it commits;
\* expire_invoice and cancel_invoice read it with a plain SELECT, and write
\* the row they read, by primary key, when they commit.  A write to a
\* locked row waits for the lock.

MaxInvOps == 3
MaxInvNow == 2

\* the payment hashes a caller may name: those of the invoices created
InvoiceHashes == 1..2

InvoiceAmounts == {60}

\* paid_amount_sats: 0 (not given), the invoice amount, another amount
PaidAmounts == {0, 60, 70}

\* expiry_minutes, in ticks of the clock
ExpiryTicks == 1

Idb == [users |-> users, dbinv |-> dbinv, dbtx |-> dbtx]

IdbInstall(d) ==
    /\ users' = d.users
    /\ dbinv' = d.dbinv
    /\ dbtx' = d.dbtx
    /\ UNCHANGED <<mbal, invoices, nextOid, payments, txlog, pending, gw, now>>
    /\ UNCHANGED <<exSess, exResp, engineVars>>

\* session.query(Invoice).filter_by(payment_hash=...).first(): the row index, 0 when none
get_invoice_by_payment_hash(d, payment_hash) ==
    IF payment_hash \in 1..Len(d.dbinv) THEN payment_hash ELSE 0

\* session.query(Transaction).filter_by(lightning_payment_hash=..., transaction_type=INVOICE).first()
invoice_transaction(d, payment_hash) ==
    LET S == {i \in 1..Len(d.dbtx) : /\ d.dbtx[i].type = "invoice"
                                     /\ "hash" \in DOMAIN d.dbtx[i]
                                     /\ d.dbtx[i].hash = payment_hash}
    IN  IF S = {} THEN 0 ELSE CHOOSE i \in S : \A j \in S : i <= j

\* the row lock mark_invoice_paid holds between its read and its commit
holds_invoice_lock(f) == f.op = "mark_invoice_paid" /\ f.pc = "inv_commit"

invoice_row_free(t, payment_hash) ==
    \A u \in Threads \ {t} : ~(holds_invoice_lock(thr[u]) /\ thr[u].amt = payment_hash)

\* InvoiceManager.create_invoice: the invoice is committed, then
\* log_invoice_transaction records it in a transaction of its own
create_invoice_step(d, f, time) ==
    IF f.pc = "inv_insert"
    THEN LET d1 == create_or_get_user(d, f.from)
         IN  [d |-> [d1 EXCEPT !.dbinv = Append(@, [hash |-> Len(@) + 1, user |-> f.from,
                                                    amount |-> f.sats, status |-> "pending",
                                                    expires_at |-> time + ExpiryTicks])],
              f |-> [f EXCEPT !.pc = "inv_log", !.amt = Len(d.dbinv) + 1]]
    ELSE [d |-> [d EXCEPT !.dbtx = Append(@, [user |-> f.from, type |-> "invoice",
                                              amount |-> f.sats, status |-> "pending",
                                              recipient |-> NoPhone, hash |-> f.amt])],
          f |-> Succeed(f)]

\* mark_invoice_paid up to the user row: lock and read, the checks
mark_invoice_paid_begin(d, f) ==
    LET i == get_invoice_by_payment_hash(d, f.amt)
    IN  IF i = 0 THEN [d |-> d, f |-> Fail(f, "Invoice not found")]
        ELSE IF d.dbinv[i].status # "pending"
        THEN [d |-> d, f |-> Fail(f, "Invoice already processed")]
        ELSE IF f.sats # 0 /\ f.sats # d.dbinv[i].amount
        THEN [d |-> d, f |-> Fail(f, "Payment amount mismatch")]
        ELSE [d |-> d, f |-> [f EXCEPT !.pc = "inv_commit"]]

\* mark_invoice_paid from the status update to the commit
mark_invoice_paid_commit(d, f) ==
    LET i == get_invoice_by_payment_hash(d, f.amt)
        inv == d.dbinv[i]
        k == invoice_transaction(d, f.amt)
        d1 == [d EXCEPT !.dbinv[i].status = "paid",
                        !.users[inv.user] = @ + inv.amount]
        d2 == IF k = 0 THEN d1 ELSE [d1 EXCEPT !.dbtx[k].status = "completed"]
    IN  [d |-> [d2 EXCEPT !.dbtx = Append(@, [user |-> inv.user, type |-> "receive",
                                              amount |-> inv.amount, status |-> "completed",
                                              recipient |-> NoPhone, hash |-> f.amt])],
         f |-> Succeed(f)]

\* expire_invoice and cancel_invoice up to the write: the read of the
\* invoice, the check, the read of its transaction (f.val, 0 when none)
close_invoice_begin(d, f) ==
    LET i == get_invoice_by_payment_hash(d, f.amt)
    IN  IF i = 0 THEN [d |-> d, f |-> Fail(f, "Invoice not found")]
        ELSE IF d.dbinv[i].status # "pending"
        THEN [d |-> d, f |-> Fail(f, "Cannot close invoice with this status")]
        ELSE [d |-> d, f |-> [f EXCEPT !.pc = "inv_write",
                                       !.val = invoice_transaction(d, f.amt)]]

\* the commit of expire_invoice (EXPIRED, EXPIRED) and of cancel_invoice
\* (CANCELLED, FAILED): the rows read are written by primary key
close_invoice_commit(d, f) ==
    LET i == get_invoice_by_payment_hash(d, f.amt)
        st == IF f.op = "expire_invoice" THEN "expired" ELSE "cancelled"
        ts == IF f.op = "expire_invoice" THEN "expired" ELSE "failed"
        d1 == [d EXCEPT !.dbinv[i].status = st]
    IN  [d |-> IF f.val = 0 THEN d1 ELSE [d1 EXCEPT !.dbtx[f.val].status = ts],
         f |-> Succeed(f)]

\* the invoices cleanup_expired_invoices selects: PENDING and past expires_at
expired_invoices(d, time) ==
    {i \in 1..Len(d.dbinv) : d.dbinv[i].status = "pending" /\ d.dbinv[i].expires_at < time}

\* cleanup_expired_invoices: count(), the UPDATE of the invoices, then the
\* same query again for the payment hashes, which now selects none of the
\* invoices just updated, and the UPDATE of the transactions of those hashes
cleanup_expired_invoices(d, f, time) ==
    LET count == expired_invoices(d, time)
        d1 == [d EXCEPT !.dbinv = [i \in 1..Len(@) |->
                                     IF i \in count THEN [@[i] EXCEPT !.status = "expired"]
                                     ELSE @[i]]]
        expired_payment_hashes == {d1.dbinv[i].hash : i \in expired_invoices(d1, time)}
    IN  [d |-> [d1 EXCEPT !.dbtx = [k \in 1..Len(@) |->
                                      IF /\ @[k].type = "invoice"
                                         /\ "hash" \in DOMAIN @[k]
                                         /\ @[k].hash \in expired_payment_hashes
                                      THEN [@[k] EXCEPT !.status = "expired"]
                                      ELSE @[k]]],
         f |-> [Succeed(f) EXCEPT !.val = Cardinality(count)]]

invoice_step(d, f, time) ==
    CASE f.op = "create_invoice" -> create_invoice_step(d, f, time)
      [] f.op = "mark_invoice_paid" /\ f.pc = "inv_lock" -> mark_invoice_paid_begin(d, f)
      [] f.op = "mark_invoice_paid" -> mark_invoice_paid_commit(d, f)
      [] f.op = "cleanup_expired_invoices" -> cleanup_expired_invoices(d, f, time)
      [] f.pc = "inv_read" -> close_invoice_begin(d, f)
      [] OTHER -> close_invoice_commit(d, f)

InvCall(t, op, pc, amt, sats) ==
    /\ ~Busy(t)
    /\ opCount < MaxInvOps
    /\ thr' = [thr EXCEPT ![t] = [Call(t, op, PhoneB, NoPhone, amt) EXCEPT !.pc = pc,
                                                                         !.sats = sats]]
    /\ opCount' = opCount + 1
    /\ UNCHANGED <<ledgerVars, dbVars, engineVars>>

CreateInvoiceCall(t) ==
    \E amount_sats \in InvoiceAmounts : InvCall(t, "create_invoice", "inv_insert", 0, amount_sats)

MarkInvoicePaidCall(t) ==
    \E payment_hash \in InvoiceHashes, paid_amount_sats \in PaidAmounts :
        InvCall(t, "mark_invoice_paid", "inv_lock", payment_hash, paid_amount_sats)

ExpireInvoiceCall(t) ==
    \E payment_hash \in InvoiceHashes : InvCall(t, "expire_invoice", "inv_read", payment_hash, 0)

CancelInvoiceCall(t) ==
    \E payment_hash \in InvoiceHashes : InvCall(t, "cancel_invoice", "inv_read", payment_hash, 0)

CleanupCall(t) == InvCall(t, "cleanup_expired_invoices", "inv_cleanup", 0, 0)

\* the statements that wait for a row lock of another transaction
InvWaits(t) ==
    LET f == thr[t]
    IN  \/ f.pc \in {"inv_lock", "inv_write"} /\ ~invoice_row_free(t, f.amt)
        \/ /\ f.pc = "inv_cleanup"
           /\ \E i \in expired_invoices(Idb, now) : ~invoice_row_free(t, dbinv[i].hash)

InvStep(t) ==
    /\ thr[t].pc \in {"inv_insert", "inv_log", "inv_lock", "inv_commit", "inv_read",
                      "inv_write", "inv_cleanup"}
    /\ ~InvWaits(t)
    /\ \E r \in {invoice_step(Idb, thr[t], now)} :
          /\ IdbInstall(r.d)
          /\ thr' = [thr EXCEPT ![t] = r.f]
    /\ UNCHANGED opCount

InvTick ==
    /\ now < MaxInvNow
    /\ now' = now + 1
    /\ UNCHANGED <<users, mbal, invoices, nextOid, payments, txlog, pending, gw, thr, opCount>>
    /\ UNCHANGED <<dbVars, engineVars>>

InvNext ==
    \/ \E t \in Threads : CreateInvoiceCall(t)
    \/ \E t \in Threads : MarkInvoicePaidCall(t)
    \/ \E t \in Threads : ExpireInvoiceCall(t)
    \/ \E t \in Threads : CancelInvoiceCall(t)
    \/ \E t \in Threads : CleanupCall(t)
    \/ \E t \in Threads : InvStep(t)
    \/ InvTick

InvSpec == Init /\ [][InvNext]_vars

\* the sats of the PAID invoices of a user
RECURSIVE PaidTo(_, _)
PaidTo(rows, phone) ==
    IF rows = <<>> THEN 0
    ELSE (IF Head(rows).user = phone /\ Head(rows).status = "paid" THEN Head(rows).amount ELSE 0)
         + PaidTo(Tail(rows), phone)

\* the receive Transactions recorded for a payment hash
Receipts(rows, payment_hash) ==
    {k \in 1..Len(rows) : /\ rows[k].type = "receive"
                          /\ "hash" \in DOMAIN rows[k]
                          /\ rows[k].hash = payment_hash}

\* C37: under every interleaving of mark_invoice_paid, expire_invoice,
\* cancel_invoice and cleanup_expired_invoices, the status of an invoice that
\* is no longer PENDING never changes, and every balance is its starting
\* balance plus the amounts of the owner's PAID invoices, each invoice being
\* credited at most once (so a credited invoice is PAID and stays PAID).
C37_InvoiceStatusFinal ==
    [][/\ \A i \in 1..Len(dbinv) :
             dbinv[i].status # "pending" => dbinv'[i].status = dbinv[i].status
       /\ \A phone \in DOMAIN users' :
             users'[phone] = get_db_balance(mbal, phone) + PaidTo(dbinv', phone)
       /\ \A i \in 1..Len(dbinv') : Cardinality(Receipts(dbtx', dbinv'[i].hash)) <= 1]_vars

\* C38: when expire_invoice or cleanup_expired_invoices returns, every
\* invoice with status EXPIRED has its invoice Transaction (same payment
\* hash) in status EXPIRED.
C38_ExpiredInvoiceExpiresTransaction ==
    [][\A t \in Threads :
          ( /\ thr'[t].op \in {"expire_invoice", "cleanup_expired_invoices"}
            /\ Busy(t)
            /\ thr'[t].pc = "done" )
          => \A i \in 1..Len(dbinv') :
                dbinv'[i].status = "expired" =>
                   \E k \in 1..Len(dbtx') : /\ dbtx'[k].type = "invoice"
                                            /\ dbtx'[k].hash = dbinv'[i].hash
                                            /\ dbtx'[k].status = "expired"]_vars

\* ---------------------------------------------------------------------
\* TransactionManager.reverse_failed_transaction beside the calls that
\* record sends and withdrawals (transaction_helpers.py).

\* the transaction ids a caller may name
TransactionIds == 1..2

\* reverse_failed_transaction: the transaction is read, the user row is read
\* under its lock, the amount is added back and the transaction is marked
\* FAILED; `res` is "ok" (True) or "fail" (False)
reverse_failed_transaction(d, f) ==
    LET transaction_id == f.amt
    IN  IF transaction_id \notin 1..Len(d.dbtx)
        THEN [d |-> d, f |-> Fail(f, "Transaction not found for reversal")]
        ELSE LET transaction == d.dbtx[transaction_id]
             IN  IF transaction.type \notin {"send", "withdraw"}
                 THEN [d |-> d, f |-> Fail(f, "Cannot reverse transaction type")]
                 ELSE IF transaction.user \notin DOMAIN d.users
                 THEN [d |-> d, f |-> Fail(f, "User not found for transaction reversal")]
                 ELSE [d |-> [d EXCEPT !.users[transaction.user] = @ + transaction.amount,
                                       !.dbtx[transaction_id].status = "failed"],
                       f |-> Succeed([f EXCEPT !.from = transaction.user])]

ReverseCall(t) ==
    /\ ~Busy(t)
    /\ opCount < MaxLockOps
    /\ \E transaction_id \in TransactionIds :
          thr' = [thr EXCEPT ![t] = [Call(t, "reverse_failed_transaction", NoPhone, NoPhone,
                                          transaction_id) EXCEPT !.pc = "rev_lock"]]
    /\ opCount' = opCount + 1
    /\ UNCHANGED <<ledgerVars, dbVars, engineVars>>

\* the user row of the transaction, when there is one to lock
ReverseUser(f) ==
    IF f.amt \in 1..Len(dbtx) THEN dbtx[f.amt].user ELSE NoPhone

ReverseStep(t) ==
    /\ thr[t].pc = "rev_lock"
    /\ with_for_update(t, ReverseUser(thr[t]))
    /\ \E r \in {reverse_failed_transaction(Db, thr[t])} :
          /\ DbInstall(r.d)
          /\ thr' = [thr EXCEPT ![t] = r.f]
    /\ UNCHANGED <<opCount, exResp>>

ReverseNext ==
    \/ LockNext
    \/ \E t \in Threads : ReverseCall(t)
    \/ \E t \in Threads : ReverseStep(t)

ReverseSpec == Init /\ [][ReverseNext]_vars

\* C39: a reversal of a transaction that was reversed before (its status is
\* FAILED) returns False and leaves every balance as it was, so that a send or
\* withdraw amount is restored at most once per transaction.
C39_ReversalAtMostOnce ==
    [][\A t \in Threads :
          ( /\ thr[t].pc = "rev_lock"
            /\ thr'[t].pc = "done"
            /\ thr[t].amt \in 1..Len(dbtx)
            /\ dbtx[thr[t].amt].status = "failed" )
          => thr'[t].res = "fail" /\ users' = users]_vars

\* C40: in the natural-language withdraw flow, a withdrawal executed at the
\* phone step debits exactly the sats amount that the amount step showed to
\* the user and checked against the balance (the sats of the ai context),
\* whether the amount was given in KES or in sats.
C40_WithdrawDebitsShownSats ==
    [][\A sid \in SessionIds, phone \in Payers, text \in UssdTexts \ {<<>>} :
          ( /\ session_context[sid].present
            /\ session_context[sid].operation = "withdraw_mpesa"
            /\ session_context[sid].awaiting = "phone_number"
            /\ \E env \in UssdEnvs(Engine, sid, text) : Took(sid, phone, text, env)
            /\ ussdReq'.op = "withdraw_to_mpesa"
            /\ ussdReq'.key = "withdrawn" )
          => get_db_balance(users', phone)
                = get_db_balance(users, phone) - session_context[sid].sats]_vars

====
